---- MODULE Spec2Model ----
(***************************************************************************)
(* A model of the image-generation command-line tools of the repository:   *)
(*   skills/openai-image-gen/scripts/common.py, generate.py   (OpenAI)     *)
(*   skills/grok-imagine/scripts/generate.py                  (Grok)       *)
(*   skills/hy3-image/scripts/hy3_image.py                    (HY3)        *)
(*                                                                         *)
(* Spec      one run of the OpenAI or Grok CLI: the retry loop of the API  *)
(*           call, the extraction of the payload, the download loop (Grok) *)
(*           the write-then-rename of the image and the metadata sidecar.  *)
(* SpecConc  two runs persisting to the same output path, interleaved at   *)
(*           the level of the file-system calls.                           *)
(* SpecHy3   one run of the HY3 CLI.                                       *)
(* SpecPair  two runs of the OpenAI or Grok CLI with different paths.      *)
(* SpecHy3Pair  two runs of the HY3 CLI and the names they derive from     *)
(*           the clock.                                                    *)
(* SpecAll   one run of any of the three CLIs.                             *)
(* SpecCli   one run of the OpenAI or Grok CLI from the start of main:     *)
(*           the checks of the arguments and resolve_api_key, followed by  *)
(*           the steps of Spec.                                            *)
(***************************************************************************)
EXTENDS Integers, Sequences, FiniteSets, TLC

VARIABLES
    \* ---- one run of the OpenAI / Grok CLI (Spec)
    output,      \* Path(args.output).resolve()
    fn,          \* the API function of the run: api_request, api_edit_request, _api_generate
    retries,     \* args.retries
    backoff,     \* args.retry_backoff, as the numerator of a fraction over BackoffDen
    pc,          \* the position of the run
    attempt,     \* the loop variable of the retry loop being executed
    loop,        \* the retry loop the loop variables belong to: "api" | "download"
    hist,        \* the outcomes of the requests of the retry loop being executed
    sleeps,      \* the arguments of the time.sleep calls of that loop
    result,      \* the parsed response returned by the API function
    exit_code,   \* the exit status of the process (Running while it runs)
    report,      \* the ERROR line written to stderr when the run failed, or the
                 \* exception that ended it uncaught
    errBody,     \* the body of the HTTP 400 response last received by the API function
    ioFail,      \* the file operation that raised OSError: "none" | "write" | "rename"
    nApiReq,     \* requests sent by the API function
    nApiSleep,   \* sleeps performed by the API function
    nDlReq,      \* requests sent by _download
    nDlSleep,    \* sleeps performed by _download
    nWrite,      \* calls of write_bytes on the temporary file
    nRename,     \* calls of rename of the temporary file
    stdout,      \* the lines written to standard output
    \* ---- the file system (Spec, SpecConc)
    parent,      \* whether the output's parent directory exists
    existed,     \* whether a file was at the output path before the run(s)
    hadParent,   \* whether the parent directory of the output existed before the run(s)
    names,       \* path -> inode (0: no such file)
    files,       \* inode -> data, a sequence of chunks
    fd,          \* process -> the file it has open for writing: [ino, off]
    \* ---- two concurrent runs (SpecConc)
    ckind,       \* process -> "openai" | "grok" | "none"
    cpc,         \* process -> position
    cexit,       \* process -> exit status
    \* ---- one run of the HY3 CLI (SpecHy3)
    hcmd,        \* args.cmd: generate | edit
    hargs,       \* [out]: Path(args.out), NoPath when --out is not given
    hpc,         \* position
    hexit,       \* exit status
    hreport,     \* how the run ended: "none", the SystemExit raised or the uncaught exception
    hresp,       \* what the remote curl printed
    hout,        \* the file at out_local: [exists, data]
    hparent,     \* whether out_local's parent directory exists
    hstdout,     \* the lines written to standard output
    hGen,        \* number of /generate requests issued
    \* ---- the metadata sidecar of the run (Spec)
    meta,        \* Path(args.metadata).resolve(), NoPath when --metadata is not given
    \* ---- two runs of the OpenAI / Grok CLI with different paths (SpecPair)
    pkind,       \* process -> "openai" | "grok" | "none"
    pargs,       \* process -> [output, metadata]: args.output and args.metadata
    ppc,         \* process -> position
    ops,         \* the file operations made so far: [proc, op, path]
    \* ---- two runs of the HY3 CLI (SpecHy3Pair)
    clock,       \* time.time(), in ticks of 1 / TicksPerSec second
    qargs,       \* process -> [cmd, suffix]: args.cmd and the suffix of args.image
    qpc,         \* process -> position
    qts,         \* process -> ts, the second main read from the clock
    qpay,        \* process -> [loc, rem]: the seconds in the names of the payload files
    qops,        \* the operations on local and remote files so far: [proc, op, name]
    \* ---- the start of main of the OpenAI / Grok CLI (SpecCli)
    cli,         \* "openai" | "grok" | "none"
    cargs,       \* [model, size, quality, fmt, background, style, image]
    output_is_dir, \* output.is_dir()
    env,         \* the value of OPENAI_API_KEY / XAI_API_KEY, <<>> when unset
    nOp,         \* number of times the secret manager ("op read") was invoked
    opres,       \* what the invocation of the secret manager gave
    api_key,     \* the key resolve_api_key returned, <<>> before it returns
    \* ---- _ensure_server before a run of the HY3 CLI (SpecEnsure)
    eargs,       \* [ensure_server, wait_seconds, poll_seconds]
    epc,         \* the position inside _ensure_server
    now,         \* time.time(), in seconds
    deadline,    \* deadline of the polling loop, -1 before it is computed
    nStart,      \* number of times the remote kill-and-start command was issued
    hfirst,      \* stdout of the initial health check, "none" before it
    hlast,       \* stdout of the latest health check, "none" before the first
    \* ---- image_dimensions on a byte string (SpecSniff)
    sscript,     \* "openai" | "grok": whose image_dimensions runs
    sin,         \* [format, w, h, valid]: what the byte string was built as
    sdata,       \* data, the byte string
    sorder,      \* the sniffers still to try
    spc,         \* "next" | "jpeg" | "done"
    ji,          \* i of the loop of _jpeg_dimensions
    sdims,       \* what image_dimensions returned, or the exception it raised
    \* ---- the sidecar written and read back (SpecMeta)
    jargs,       \* [model, prompt]: args.model and args.prompt, as characters
    jpc,         \* "sniff" | "write" | "written" | "read"
    jtext,       \* field -> the JSON text of its value in the sidecar file
    jread        \* field -> the value json.loads gives for the file

cfgVars  == <<output, fn, retries, backoff>>
loopVars == <<attempt, loop, hist, sleeps>>
endVars  == <<exit_code, report>>
apiCnt   == <<nApiReq, nApiSleep>>
dlCnt    == <<nDlReq, nDlSleep>>
ioCnt    == <<nWrite, nRename>>
runVars  == <<cfgVars, pc, loopVars, result, endVars, errBody, ioFail, apiCnt, dlCnt,
              ioCnt, stdout>>
fsVars   == <<parent, existed, hadParent, names, files, fd>>
concVars == <<ckind, cpc, cexit>>
hy3Vars  == <<hcmd, hargs, hpc, hexit, hreport, hresp, hout, hparent, hstdout, hGen>>
pairVars == <<pkind, pargs, ppc, ops>>
hpairVars == <<clock, qargs, qpc, qts, qpay, qops>>
metaVars == <<meta>>
cliVars  == <<cli, cargs, output_is_dir, env, nOp, opres, api_key>>
ensVars  == <<eargs, epc, now, deadline, nStart, hfirst, hlast>>
sniffVars == <<sscript, sin, sdata, sorder, spc, ji, sdims>>
jsonVars == <<jargs, jpc, jtext, jread>>
auxVars  == <<ensVars, sniffVars, jsonVars>>
extVars  == <<metaVars, pairVars, hpairVars, cliVars, auxVars>>
vars     == <<runVars, fsVars, concVars, hy3Vars, extVars>>

-----------------------------------------------------------------------------
(* Bounds of the model *)

\* the retry counts tried are -NegRetries .. MaxRetries
MaxRetries == 2
NegRetries == 2
\* backoff bases are fractions over BackoffDen
BackoffDen == 2
\* an image is ImgLen chunks long; a chunk is what one write call transfers
ImgLen == 2
\* the sidecar JSON is MetaLen chunks long
MetaLen == 2
\* the clock runs from tick 0 to tick MaxClock
MaxClock == 3
\* the environment value and the output of the secret manager are at most
\* MaxKeyLen characters long
MaxKeyLen == 2

(* Constants of the program *)

\* build_parser: --retries default
DefaultRetries == 2
\* exit statuses
EXIT_OK == 0
EXIT_AUTH == 1
EXIT_API == 2
EXIT_SAVE == 3
EXIT_ARGS == 4

\* the exit status of a Python process that ends by an uncaught exception
\* (or by SystemExit with a message)
EXIT_UNCAUGHT == 1

Running == 0 - 1

_RETRYABLE_CODES == {429, 500, 502, 503, 504}
_RETRYABLE == {429, 500, 502, 503, 504}

OpenAIFns == {"api_request", "api_edit_request"}
GrokFns   == {"_api_generate"}
ApiFns    == OpenAIFns \cup GrokFns

\* statuses an HTTPError can carry in the model
ErrCodes == {400, 401, 404, 429, 500, 502, 503, 504}
\* bodies of an HTTP error response, by what json.loads and .get make of them:
\*   policy            {"error": {"code": "content_policy_violation"}}
\*   other             a JSON object whose "error" is absent or an object with another code
\*   error_not_object  a JSON object whose "error" is a string, a list or null
\*   nonobject         valid JSON that is not an object
\*   badjson           not JSON
ErrBodies == {"policy", "other", "error_not_object", "nonobject", "badjson"}
\* bodies of a 2xx response of the API:
\*   good         {"data": [{"b64_json" / "url": ...}]} with a usable payload
\*   b64_invalid  b64_json that base64.b64decode rejects          (OpenAI)
\*   b64_empty    b64_json that decodes to no bytes               (OpenAI)
\*   nofield      data[0] without b64_json / url
\*   nodata       no "data", or an empty list
\*   nonobject    valid JSON that is not an object
\*   badjson      not JSON
OkBodies(f) ==
    IF f \in OpenAIFns
    THEN {"good", "b64_invalid", "b64_empty", "nofield", "nodata", "nonobject", "badjson"}
    ELSE {"good", "nofield", "nodata", "nonobject", "badjson"}

RetryChoices == (0 - NegRetries) .. MaxRetries
\* the bases -1, 0, 1/BackoffDen, 1, 1 + 1/BackoffDen and 2 (the default)
BackoffChoices == {0 - BackoffDen, 0, 1, BackoffDen, BackoffDen + 1, 2 * BackoffDen}
DefaultBackoff == 2 * BackoffDen

-----------------------------------------------------------------------------
(* Pure helpers *)

RECURSIVE Pow(_, _)
Pow(b, k) == IF k <= 0 THEN 1 ELSE b * Pow(b, k - 1)

\* for attempt in range(1 + retries): the number of iterations
NumAttempts(r) == IF 1 + r > 0 THEN 1 + r ELSE 0

\* if attempt > 0:
NeedsSleep_First(a) == a >= 0
NeedsSleep(a) == a > 0

\* wait = backoff ** attempt, as a fraction
Wait_Linear(b, a) == [num |-> b * a, den |-> BackoffDen]
Wait(b, a) == [num |-> Pow(b, a), den |-> Pow(BackoffDen, a)]

\* time.sleep raises ValueError for a negative argument
SleepRaises(w) == w.num < 0

FracLess(v, w) == v.num * w.den < w.num * v.den

\* if exc.code in _RETRYABLE_CODES   (common.py)
IsRetryableOpenAI(code) == code \in _RETRYABLE_CODES
\* if exc.code in _RETRYABLE         (grok generate.py)
IsRetryableGrok(code) == code \in _RETRYABLE

IsRetryable(f, code) ==
    IF f \in OpenAIFns THEN IsRetryableOpenAI(code) ELSE IsRetryableGrok(code)

\* what the content-policy detection of api_request / api_edit_request does with
\* the body of an HTTP 400: "exit" (content policy, sys.exit(2)), "raise" (an
\* exception the except clause does not catch) or "pass"
PolicyCheck_Missing(f, code, body) == "pass"
PolicyCheck(f, code, body) ==
    IF f \in OpenAIFns /\ code = 400
    THEN CASE body = "policy" -> "exit"
           [] body \in {"error_not_object", "nonobject"} -> "raise"
           [] OTHER -> "pass"
    ELSE "pass"

H(kind, code) == [kind |-> kind, code |-> code]
IsRetryableFailure(f, h) ==
    \/ h.kind = "net"
    \/ h.kind = "http" /\ IsRetryable(f, h.code)

-----------------------------------------------------------------------------
(* The file system: names, inodes and open files *)

Procs == {1, 2}
Inodes == 1 .. (1 + Cardinality(Procs))

\* a path as pathlib splits it: the directory, and the name, which is stem
\* followed by suffix; a relative path has no directory
Cwd == "/cwd/"
TmpDir == "/tmp/"
AbsDirs == {Cwd, TmpDir}
RelPath(stem, suffix) == [dir |-> "", stem |-> stem, suffix |-> suffix]
PathOf(stem, suffix) == [dir |-> Cwd, stem |-> stem, suffix |-> suffix]
NoPath == RelPath("", "")
PStr(path) == path.dir \o path.stem \o path.suffix
IsAbsolute(path) == path.dir \in AbsDirs
\* Path(arg).resolve()
Resolve(path) == IF IsAbsolute(path) THEN path ELSE [path EXCEPT !.dir = Cwd]

\* the values of --output in the model (out.png, named relative to the
\* working directory or absolutely, and out.tmp), and the output paths main
\* makes of them
OutArgs == {RelPath("out", ".png"), PathOf("out", ".png"), PathOf("out", ".tmp")}
Outputs == {Resolve(arg) : arg \in OutArgs}
DefaultOutput == PathOf("out", ".png")

OutPath == PStr(output)
\* tmp_path = output.with_name(output.name + ".tmp")
TmpPath(out) == out \o ".tmp"

\* path.with_suffix(suffix): the suffix is replaced, or added when there is none
with_suffix(path, suffix) == [path EXCEPT !.suffix = suffix]
\* write_metadata: tmp = meta_path.with_suffix(".tmp")
MetaTmp(meta_path) == PStr(with_suffix(meta_path, ".tmp"))

\* the values of Path(args.metadata).resolve() in the model, each a path other
\* than the output paths: out.json, meta.tmp and out.png.json
MetaChoices == {PathOf("out", ".json"), PathOf("meta", ".tmp"), PathOf("out.png", ".json")}

Paths == UNION {{PStr(o), TmpPath(PStr(o))} : o \in Outputs}
            \cup UNION {{PStr(m), MetaTmp(m)} : m \in MetaChoices}
\* args with no paths
NoArgs == [output |-> NoPath, metadata |-> NoPath]

NoFd == [ino |-> 0, off |-> 0]
\* chunk i of the image process p holds in memory; process 0 is whoever wrote
\* the file that was at the output path before the runs
Chunk(p, i) == <<p, i>>
Hole == <<0, 0>>
Image(p) == [i \in 1 .. ImgLen |-> Chunk(p, i)]
OldData == [i \in 1 .. ImgLen |-> Chunk(0, i)]
\* json.dumps(meta, indent=2) + "\n" of process p, MetaLen chunks long
MetaDoc(p) == [i \in 1 .. MetaLen |-> Chunk(0 - p, i)]
IsMetaPrefix(data, p) ==
    /\ Len(data) <= MetaLen
    /\ \A i \in 1 .. Len(data) : data[i] = MetaDoc(p)[i]

Exists(path) == names[path] # 0
Data(path) == files[names[path]]
IsOld(path) == Exists(path) /\ Data(path) = OldData
IsImageOf(path, p) == Exists(path) /\ Data(path) = Image(p)

\* the data of inodes that no name and no open file refers to is dropped
Canon(nm, fl, f) ==
    [i \in Inodes |->
        IF (\E path \in Paths : nm[path] = i) \/ (\E p \in Procs : f[p].ino = i)
        THEN fl[i] ELSE <<>>]

FreshIno ==
    CHOOSE i \in Inodes :
        /\ \A path \in Paths : names[path] # i
        /\ \A p \in Procs : fd[p].ino # i
        /\ \A j \in Inodes :
              ((\A path \in Paths : names[path] # j) /\ (\A p \in Procs : fd[p].ino # j))
              => i <= j

WriteAt(data, off, c) ==
    [i \in 1 .. (IF Len(data) > off + 1 THEN Len(data) ELSE off + 1) |->
        IF i = off + 1 THEN c
        ELSE IF i <= Len(data) THEN data[i] ELSE Hole]

\* open(path, "wb"): creates the file or truncates the one that is there
FsOpenTrunc(p, path) ==
    LET ino == IF Exists(path) THEN names[path] ELSE FreshIno
        nm  == [names EXCEPT ![path] = ino]
        f   == [fd EXCEPT ![p] = [ino |-> ino, off |-> 0]]
    IN  /\ names' = nm
        /\ fd' = f
        /\ files' = Canon(nm, [files EXCEPT ![ino] = <<>>], f)

\* one write call on the open file: the next chunk of p's image
FsWrite(p) ==
    LET ino == fd[p].ino
        off == fd[p].off
    IN  /\ files' = [files EXCEPT ![ino] = WriteAt(@, off, Chunk(p, off + 1))]
        /\ fd' = [fd EXCEPT ![p].off = off + 1]
        /\ UNCHANGED names

FsClose(p) ==
    LET f == [fd EXCEPT ![p] = NoFd]
    IN  /\ fd' = f
        /\ files' = Canon(names, files, f)
        /\ UNCHANGED names

\* one write call followed by the close that ends write_bytes
FsWriteClose(p) ==
    LET ino == fd[p].ino
        off == fd[p].off
        f   == [fd EXCEPT ![p] = NoFd]
    IN  /\ fd' = f
        /\ files' = Canon(names, [files EXCEPT ![ino] = WriteAt(@, off, Chunk(p, off + 1))], f)
        /\ UNCHANGED names

\* the same for the file and the data of write_text
FsWriteOf(p, doc) ==
    LET ino == fd[p].ino
        off == fd[p].off
    IN  /\ files' = [files EXCEPT ![ino] = WriteAt(@, off, doc[off + 1])]
        /\ fd' = [fd EXCEPT ![p].off = off + 1]
        /\ UNCHANGED names

FsWriteCloseOf(p, doc) ==
    LET ino == fd[p].ino
        off == fd[p].off
        f   == [fd EXCEPT ![p] = NoFd]
    IN  /\ fd' = f
        /\ files' = Canon(names, [files EXCEPT ![ino] = WriteAt(@, off, doc[off + 1])], f)
        /\ UNCHANGED names

\* rename(src, dst), defined when src exists: dst names src's file, src is gone
FsRename(src, dst) ==
    LET nm == IF src = dst THEN names
              ELSE [names EXCEPT ![dst] = names[src], ![src] = 0]
    IN  /\ names' = nm
        /\ files' = Canon(nm, files, fd)
        /\ UNCHANGED fd

FsInit ==
    /\ parent \in BOOLEAN
    /\ hadParent = parent
    /\ fd = [p \in Procs |-> NoFd]
    /\ \/ /\ existed = FALSE
          /\ names = [path \in Paths |-> 0]
          /\ files = [i \in Inodes |-> <<>>]
       \/ /\ parent
          /\ existed = TRUE
          /\ names = [path \in Paths |-> IF path = OutPath THEN 1 ELSE 0]
          /\ files = [i \in Inodes |-> IF i = 1 THEN OldData ELSE <<>>]

FsIdle ==
    /\ parent = FALSE
    /\ hadParent = FALSE
    /\ existed = FALSE
    /\ fd = [p \in Procs |-> NoFd]
    /\ names = [path \in Paths |-> 0]
    /\ files = [i \in Inodes |-> <<>>]

-----------------------------------------------------------------------------
(* One run of the OpenAI or Grok CLI *)

Exit(code, rep) ==
    /\ pc' = "done"
    /\ exit_code' = code
    /\ report' = rep

\* an exception that nothing catches ends the process; report names it
Crash(exc) == Exit(EXIT_UNCAUGHT, exc)

\* for attempt in range(1 + retries): the loop is over
LoopDone(a, r) == a >= NumAttempts(r)

\* the process that runs alone in Spec
Me == 1

ConcIdle ==
    /\ ckind = [p \in Procs |-> "none"]
    /\ cpc = [p \in Procs |-> "idle"]
    /\ cexit = [p \in Procs |-> Running]

Hy3Idle ==
    /\ hcmd = "none"
    /\ hargs = [out |-> NoPath]
    /\ hpc = "idle"
    /\ hexit = Running
    /\ hreport = "none"
    /\ hresp = "none"
    /\ hout = [exists |-> FALSE, data |-> <<>>]
    /\ hparent = FALSE
    /\ hstdout = <<>>
    /\ hGen = 0

PairIdle ==
    /\ pkind = [p \in Procs |-> "none"]
    /\ pargs = [p \in Procs |-> NoArgs]
    /\ ppc = [p \in Procs |-> "idle"]
    /\ ops = {}

Hy3PairIdle ==
    /\ clock = 0
    /\ qargs = [p \in Procs |-> [cmd |-> "none", suffix |-> ""]]
    /\ qpc = [p \in Procs |-> "idle"]
    /\ qts = [p \in Procs |-> 0]
    /\ qpay = [p \in Procs |-> [loc |-> 0, rem |-> 0]]
    /\ qops = {}

MetaIdle ==
    /\ meta = NoPath

\* the result of subprocess.run before it is called
NoOpResult == [kind |-> "none", returncode |-> 0, stdout |-> <<>>]
NoCliArgs == [model |-> "", size |-> "", quality |-> "", fmt |-> "", background |-> "",
              style |-> "", image |-> ""]

CliIdle ==
    /\ cli = "none"
    /\ cargs = NoCliArgs
    /\ output_is_dir = FALSE
    /\ env = <<>>
    /\ nOp = 0
    /\ opres = NoOpResult
    /\ api_key = <<>>

\* no _ensure_server is modelled
NoEnsureArgs == [ensure_server |-> FALSE, wait_seconds |-> 0, poll_seconds |-> 0]

EnsIdle ==
    /\ eargs = NoEnsureArgs
    /\ epc = "none"
    /\ now = 0
    /\ deadline = -1
    /\ nStart = 0
    /\ hfirst = "none"
    /\ hlast = "none"

\* no byte string is modelled
NoInput == [format |-> "none", w |-> 0, h |-> 0, valid |-> FALSE]
Unset == [k |-> "unset"]

SniffIdle ==
    /\ sscript = "none"
    /\ sin = NoInput
    /\ sdata = <<>>
    /\ sorder = <<>>
    /\ spc = "idle"
    /\ ji = 0
    /\ sdims = Unset

\* no sidecar text is modelled
NoDoc == [model |-> <<>>, prompt |-> <<>>, width |-> <<>>, height |-> <<>>]

JsonIdle ==
    /\ jargs = [model |-> <<>>, prompt |-> <<>>]
    /\ jpc = "idle"
    /\ jtext = NoDoc
    /\ jread = NoDoc

AuxIdle ==
    /\ EnsIdle
    /\ SniffIdle
    /\ JsonIdle

ExtIdle ==
    /\ MetaIdle
    /\ PairIdle
    /\ Hy3PairIdle
    /\ CliIdle
    /\ AuxIdle

Init ==
    /\ output \in Outputs
    /\ fn \in ApiFns
    /\ retries \in RetryChoices
    /\ backoff \in BackoffChoices
    /\ pc = "api_head"
    /\ attempt = 0
    /\ loop = "api"
    /\ hist = <<>>
    /\ sleeps = <<>>
    /\ result = "none"
    /\ exit_code = Running
    /\ report = "none"
    /\ errBody = "none"
    /\ ioFail = "none"
    /\ nApiReq = 0
    /\ nApiSleep = 0
    /\ nDlReq = 0
    /\ nDlSleep = 0
    /\ nWrite = 0
    /\ nRename = 0
    /\ stdout = <<>>
    /\ FsInit
    /\ ConcIdle
    /\ Hy3Idle
    /\ ExtIdle

\* The head of "for attempt in range(1 + retries)" in api_request,
\* api_edit_request and _api_generate, with the sleep that precedes a retry and
\* the exit that follows the loop. sleeps records the calls of time.sleep that
\* returned.
ApiHead ==
    /\ pc = "api_head"
    /\ IF LoopDone(attempt, retries)
       THEN /\ Exit(EXIT_API, "api_exhausted")
            /\ UNCHANGED <<sleeps, nApiSleep>>
       ELSE IF NeedsSleep(attempt)
            THEN IF SleepRaises(Wait(backoff, attempt))
                 THEN /\ Crash("ValueError_sleep")
                      /\ UNCHANGED <<sleeps, nApiSleep>>
                 ELSE /\ sleeps' = Append(sleeps, Wait(backoff, attempt))
                      /\ nApiSleep' = nApiSleep + 1
                      /\ pc' = "api_send"
                      /\ UNCHANGED endVars
            ELSE /\ pc' = "api_send"
                 /\ UNCHANGED <<sleeps, nApiSleep, endVars>>
    /\ UNCHANGED <<cfgVars, attempt, loop, hist, result, errBody, ioFail, nApiReq,
                   dlCnt, ioCnt, stdout>>
    /\ UNCHANGED <<fsVars, concVars, hy3Vars, extVars>>

\* urlopen and what follows it in the body of the loop: the response is
\* returned, or the HTTPError / URLError / OSError is handled
ApiSend ==
    /\ pc = "api_send"
    /\ nApiReq' = nApiReq + 1
    /\ \/ \E body \in OkBodies(fn) :
            /\ hist' = Append(hist, H("ok", 200))
            /\ UNCHANGED <<errBody, attempt>>
            /\ IF body = "badjson"
               THEN /\ Crash("JSONDecodeError")
                    /\ UNCHANGED result
               ELSE /\ result' = body
                    /\ pc' = "extract"
                    /\ UNCHANGED endVars
       \/ \E code \in ErrCodes, body \in ErrBodies :
            /\ hist' = Append(hist, H("http", code))
            /\ errBody' = IF code = 400 THEN body ELSE errBody
            /\ UNCHANGED result
            /\ CASE PolicyCheck(fn, code, body) = "exit" ->
                      /\ Exit(EXIT_API, "content_policy")
                      /\ UNCHANGED attempt
                 [] PolicyCheck(fn, code, body) = "raise" ->
                      /\ Crash("AttributeError")
                      /\ UNCHANGED attempt
                 [] OTHER ->
                      IF IsRetryable(fn, code)
                      THEN /\ attempt' = attempt + 1
                           /\ pc' = "api_head"
                           /\ UNCHANGED endVars
                      ELSE /\ Exit(EXIT_API, "api_status")
                           /\ UNCHANGED attempt
       \/ /\ hist' = Append(hist, H("net", 0))
          /\ attempt' = attempt + 1
          /\ pc' = "api_head"
          /\ UNCHANGED <<result, endVars, errBody>>
    /\ UNCHANGED <<cfgVars, loop, sleeps, ioFail, nApiSleep, dlCnt, ioCnt, stdout>>
    /\ UNCHANGED <<fsVars, concVars, hy3Vars, extVars>>

\* main, from the return of the API function to the mkdir: result.get("data"),
\* data_list[0], the image field and (OpenAI) base64.b64decode
Extract ==
    /\ pc = "extract"
    /\ CASE result = "nonobject" -> Crash("AttributeError")
         [] result = "nodata" ->
              Exit(EXIT_API, IF fn \in OpenAIFns THEN "empty_data" ELSE "unexpected_response")
         [] result = "nofield" ->
              Exit(EXIT_API, IF fn \in OpenAIFns THEN "no_b64_json" ELSE "unexpected_response")
         [] result = "b64_invalid" -> Exit(EXIT_SAVE, "b64_failed")
         [] result = "b64_empty" -> Exit(EXIT_SAVE, "empty_image")
         [] OTHER -> /\ pc' = "mkdir"
                     /\ UNCHANGED endVars
    /\ UNCHANGED <<cfgVars, loopVars, result, errBody, ioFail, apiCnt, dlCnt, ioCnt, stdout>>
    /\ UNCHANGED <<fsVars, concVars, hy3Vars, extVars>>

\* output.parent.mkdir(parents=True, exist_ok=True), outside any try; the Grok
\* run then enters _download with fresh loop variables
Mkdir ==
    /\ pc = "mkdir"
    /\ \/ /\ parent' = TRUE
          /\ IF fn \in OpenAIFns
             THEN /\ pc' = "open"
                  /\ UNCHANGED loopVars
             ELSE /\ pc' = "dl_head"
                  /\ loop' = "download"
                  /\ attempt' = 0
                  /\ hist' = <<>>
                  /\ sleeps' = <<>>
          /\ UNCHANGED endVars
       \/ /\ ~parent
          /\ Crash("OSError_mkdir")
          /\ UNCHANGED <<parent, loopVars>>
    /\ UNCHANGED <<cfgVars, result, errBody, ioFail, apiCnt, dlCnt, ioCnt, stdout>>
    /\ UNCHANGED <<existed, hadParent, names, files, fd, concVars, hy3Vars, extVars>>

\* The head of the loop of _download, with its sleep and the exit after the loop
DlHead ==
    /\ pc = "dl_head"
    /\ IF LoopDone(attempt, retries)
       THEN /\ Exit(EXIT_SAVE, "dl_exhausted")
            /\ UNCHANGED <<sleeps, nDlSleep>>
       ELSE IF NeedsSleep(attempt)
            THEN IF SleepRaises(Wait(backoff, attempt))
                 THEN /\ Crash("ValueError_sleep")
                      /\ UNCHANGED <<sleeps, nDlSleep>>
                 ELSE /\ sleeps' = Append(sleeps, Wait(backoff, attempt))
                      /\ nDlSleep' = nDlSleep + 1
                      /\ pc' = "dl_send"
                      /\ UNCHANGED endVars
            ELSE /\ pc' = "dl_send"
                 /\ UNCHANGED <<sleeps, nDlSleep, endVars>>
    /\ UNCHANGED <<cfgVars, attempt, loop, hist, result, errBody, ioFail, apiCnt,
                   nDlReq, ioCnt, stdout>>
    /\ UNCHANGED <<fsVars, concVars, hy3Vars, extVars>>

\* statuses an HTTPError of the download can carry in the model
DlErrCodes == {404, 503}

\* "except (urllib.error.URLError, OSError)" in _download: it catches every
\* HTTPError as well, HTTPError being a URLError
DlCaught_Classified(kind, code) == kind = "net" \/ code \in _RETRYABLE
DlCaught(kind, code) == kind \in {"net", "http"}

\* urlopen and resp.read() in _download
DlSend ==
    /\ pc = "dl_send"
    /\ nDlReq' = nDlReq + 1
    /\ \/ /\ hist' = Append(hist, H("ok", 200))
          /\ pc' = "open"
          /\ UNCHANGED <<attempt, endVars>>
       \/ \E h \in {H("net", 0)} \cup {H("http", c) : c \in DlErrCodes} :
            /\ hist' = Append(hist, h)
            /\ IF DlCaught(h.kind, h.code)
               THEN /\ attempt' = attempt + 1
                    /\ pc' = "dl_head"
                    /\ UNCHANGED endVars
               ELSE /\ Exit(EXIT_SAVE, "download_status")
                    /\ UNCHANGED attempt
    /\ UNCHANGED <<cfgVars, loop, sleeps, result, errBody, ioFail, apiCnt, nDlSleep,
                   ioCnt, stdout>>
    /\ UNCHANGED <<fsVars, concVars, hy3Vars, extVars>>

\* An OSError raised by write_bytes: main of the OpenAI CLI returns 3; in the
\* Grok CLI the write is inside the try of _download, whose except clause
\* catches it and goes on to the next attempt
WriteFailed ==
    IF fn \in OpenAIFns
    THEN /\ Exit(EXIT_SAVE, "write_failed")
         /\ UNCHANGED attempt
    ELSE /\ attempt' = attempt + 1
         /\ pc' = "dl_head"
         /\ UNCHANGED endVars

\* tmp_path.write_bytes(img_data) / dest.write_bytes(data): the open
WriteOpen ==
    /\ pc = "open"
    /\ nWrite' = nWrite + 1
    /\ \/ /\ FsOpenTrunc(Me, TmpPath(OutPath))
          /\ pc' = "write"
          /\ UNCHANGED <<attempt, endVars, ioFail>>
       \/ /\ WriteFailed
          /\ ioFail' = "write"
          /\ UNCHANGED <<names, files, fd>>
    /\ UNCHANGED <<cfgVars, loop, hist, sleeps, result, errBody, apiCnt, dlCnt,
                   nRename, stdout>>
    /\ UNCHANGED <<parent, existed, hadParent, concVars, hy3Vars, extVars>>

\* what follows the complete write of the temp file: tmp_path.rename(output)
\* in the OpenAI CLI, tmp_path.read_bytes() in the Grok CLI
AfterWrite_Sidecar(f) == "meta"
AfterWrite(f) == IF f \in OpenAIFns THEN "rename" ELSE "read_back"

\* write_bytes: one write call; the last one is followed by the close
WriteChunk ==
    /\ pc = "write"
    /\ \/ IF fd[Me].off + 1 >= ImgLen
          THEN /\ FsWriteClose(Me)
               /\ pc' = AfterWrite(fn)
               /\ UNCHANGED <<attempt, endVars, ioFail>>
          ELSE /\ FsWrite(Me)
               /\ UNCHANGED <<pc, attempt, endVars, ioFail>>
       \/ /\ FsClose(Me)
          /\ WriteFailed
          /\ ioFail' = "write"
    /\ UNCHANGED <<cfgVars, loop, hist, sleeps, result, errBody, apiCnt, dlCnt,
                   ioCnt, stdout>>
    /\ UNCHANGED <<parent, existed, hadParent, concVars, hy3Vars, extVars>>

\* img_data = tmp_path.read_bytes() in main of the Grok CLI, outside any try
ReadBack ==
    /\ pc = "read_back"
    /\ \/ /\ Exists(TmpPath(OutPath))
          /\ pc' = "rename"
          /\ UNCHANGED endVars
       \/ Crash("OSError_read")
    /\ UNCHANGED <<cfgVars, loopVars, result, errBody, ioFail, apiCnt, dlCnt, ioCnt, stdout>>
    /\ UNCHANGED <<fsVars, concVars, hy3Vars, extVars>>

\* An OSError raised by tmp_path.rename(output): inside try/except OSError in
\* the OpenAI CLI (return 3), outside any try in the Grok CLI
RenameFailed ==
    IF fn \in OpenAIFns
    THEN Exit(EXIT_SAVE, "write_failed")
    ELSE Crash("OSError_rename")

\* tmp_path.rename(output)
Rename ==
    /\ pc = "rename"
    /\ nRename' = nRename + 1
    /\ \/ /\ Exists(TmpPath(OutPath))
          /\ FsRename(TmpPath(OutPath), OutPath)
          /\ pc' = "meta"
          /\ UNCHANGED <<endVars, ioFail>>
       \/ /\ RenameFailed
          /\ ioFail' = "rename"
          /\ UNCHANGED <<names, files, fd>>
    /\ UNCHANGED <<cfgVars, loopVars, result, errBody, apiCnt, dlCnt, nWrite, stdout>>
    /\ UNCHANGED <<parent, existed, hadParent, concVars, hy3Vars, extVars>>

\* "if args.metadata:" in main, and in write_metadata
\* meta_path.parent.mkdir(parents=True, exist_ok=True); write_metadata is
\* called outside any try
MetaCheck ==
    /\ pc = "meta"
    /\ \/ /\ meta' = NoPath
          /\ pc' = "finish"
          /\ UNCHANGED endVars
       \/ \E m \in MetaChoices :
            /\ meta' = m
            /\ \/ /\ pc' = "meta_open"
                  /\ UNCHANGED endVars
               \/ Crash("OSError_metadata")
    /\ UNCHANGED <<cfgVars, loopVars, result, errBody, ioFail, apiCnt, dlCnt, ioCnt, stdout>>
    /\ UNCHANGED <<fsVars, concVars, hy3Vars, pairVars, hpairVars, cliVars, auxVars>>

\* write_metadata: tmp.write_text(...): the open
MetaOpen ==
    /\ pc = "meta_open"
    /\ \/ /\ FsOpenTrunc(Me, MetaTmp(meta))
          /\ pc' = "meta_write"
          /\ UNCHANGED endVars
       \/ /\ Crash("OSError_metadata")
          /\ UNCHANGED <<names, files, fd>>
    /\ UNCHANGED <<cfgVars, loopVars, result, errBody, ioFail, apiCnt, dlCnt, ioCnt, stdout>>
    /\ UNCHANGED <<parent, existed, hadParent, concVars, hy3Vars, extVars>>

\* write_metadata: tmp.write_text(...): one write call; the last one is
\* followed by the close
MetaWrite ==
    /\ pc = "meta_write"
    /\ \/ IF fd[Me].off + 1 >= MetaLen
          THEN /\ FsWriteCloseOf(Me, MetaDoc(Me))
               /\ pc' = "meta_rename"
               /\ UNCHANGED endVars
          ELSE /\ FsWriteOf(Me, MetaDoc(Me))
               /\ UNCHANGED <<pc, endVars>>
       \/ /\ FsClose(Me)
          /\ Crash("OSError_metadata")
    /\ UNCHANGED <<cfgVars, loopVars, result, errBody, ioFail, apiCnt, dlCnt, ioCnt, stdout>>
    /\ UNCHANGED <<parent, existed, hadParent, concVars, hy3Vars, extVars>>

\* write_metadata: tmp.rename(meta_path)
MetaRename ==
    /\ pc = "meta_rename"
    /\ \/ /\ Exists(MetaTmp(meta))
          /\ FsRename(MetaTmp(meta), PStr(meta))
          /\ pc' = "finish"
          /\ UNCHANGED endVars
       \/ /\ Crash("OSError_metadata")
          /\ UNCHANGED <<names, files, fd>>
    /\ UNCHANGED <<cfgVars, loopVars, result, errBody, ioFail, apiCnt, dlCnt, ioCnt, stdout>>
    /\ UNCHANGED <<parent, existed, hadParent, concVars, hy3Vars, extVars>>

MediaLine(path) == "MEDIA: " \o path

\* print(f"MEDIA: {output}"); return 0
Finish ==
    /\ pc = "finish"
    /\ stdout' = Append(stdout, MediaLine(OutPath))
    /\ Exit(EXIT_OK, "none")
    /\ UNCHANGED <<cfgVars, loopVars, result, errBody, ioFail, apiCnt, dlCnt, ioCnt>>
    /\ UNCHANGED <<fsVars, concVars, hy3Vars, extVars>>

Next ==
    \/ ApiHead
    \/ ApiSend
    \/ Extract
    \/ Mkdir
    \/ DlHead
    \/ DlSend
    \/ WriteOpen
    \/ WriteChunk
    \/ ReadBack
    \/ Rename
    \/ MetaCheck
    \/ MetaOpen
    \/ MetaWrite
    \/ MetaRename
    \/ Finish

Spec == Init /\ [][Next]_vars

-----------------------------------------------------------------------------
(* Claims about the retry loops, checked under Spec *)

Codes(h) == [i \in 1 .. Len(h) |-> h[i].code]
Last(h) == h[Len(h)]
AllRetryableFailures(h, n) == \A i \in 1 .. n : IsRetryableFailure(fn, h[i])
StrictlyIncreasing(w) == \A i \in 1 .. Len(w) - 1 : FracLess(w[i], w[i + 1])
ApiReturned == result # "none"
InApiLoop == loop = "api" /\ ~ApiReturned
InDownload == loop = "download"

\* C1: when api_request, api_edit_request or _api_generate returns a response,
\* the N requests before the successful one each failed retryably, N is at most
\* the retry count, exactly N + 1 requests were sent and exactly N sleeps were
\* made, and no request or sleep of the API function follows; with the default
\* 2 retries the sequence 429, 429, 200 is returned after 2 sleeps and the
\* transport does not end the run.
C1_RetryThenSuccess ==
    /\ pc = "extract" =>
          /\ Len(hist) >= 1
          /\ Last(hist).kind = "ok"
          /\ AllRetryableFailures(hist, Len(hist) - 1)
          /\ Len(hist) - 1 <= retries
          /\ nApiReq = Len(hist)
          /\ nApiSleep = Len(hist) - 1
          /\ Len(sleeps) = Len(hist) - 1
    /\ ApiReturned =>
          /\ pc \notin {"api_head", "api_send"}
          /\ nApiReq = nApiSleep + 1
          /\ report \notin {"api_exhausted", "api_status", "content_policy"}
    /\ (loop = "api" /\ retries = DefaultRetries /\ Codes(hist) = <<429, 429, 200>>
          /\ report # "JSONDecodeError") =>
          /\ ApiReturned
          /\ nApiSleep = 2
          /\ nApiReq = 3
          /\ (pc = "done" /\ report = "none" => exit_code = EXIT_OK)

C1_Witness ==
    /\ pc = "done"
    /\ exit_code = EXIT_OK
    /\ fn = "api_request"
    /\ retries = DefaultRetries
    /\ Codes(hist) = <<429, 429, 200>>
    /\ nApiSleep = 2
    /\ stdout = <<MediaLine(OutPath)>>

\* C2: for every retry count the CLI accepts, a loop whose attempts all failed
\* retryably has made exactly 1 + max_retries attempts and ends the run with
\* status 2 (3 for _download), and no run makes more than 1 + max_retries
\* attempts in a loop.
C2_ExactAttempts ==
    pc = "done" =>
       /\ nApiReq <= 1 + retries
       /\ nDlReq <= 1 + retries
       /\ (InApiLoop /\ AllRetryableFailures(hist, Len(hist))) =>
             (nApiReq = 1 + retries /\ exit_code = EXIT_API)
       /\ report = "dl_exhausted" => (nDlReq = 1 + retries /\ exit_code = EXIT_SAVE)

\* C3 as stated: no sleep before attempt 0, the k-th sleep is backoff_base^k,
\* and the sleeps of one call are strictly increasing, whatever the base.
C3_Original ==
    /\ Len(sleeps) <= attempt
    /\ \A k \in 1 .. Len(sleeps) :
          sleeps[k].num = Pow(backoff, k) /\ sleeps[k].den = Pow(BackoffDen, k)
    /\ StrictlyIncreasing(sleeps)

\* C3 amended: in every retry loop there is no sleep before attempt 0 and the
\* sleep before attempt k (k >= 1) is backoff_base^k seconds; the successive
\* sleeps of one call are strictly increasing exactly when the base is greater
\* than 1 (they are constant for base 1 and base 0 and decreasing for a base
\* between 0 and 1; for a negative base the first sleep raises and there is
\* none).
C3_BackoffSchedule ==
    /\ Len(sleeps) <= attempt
    /\ (pc \in {"api_send", "dl_send"} /\ attempt = 0) => sleeps = <<>>
    /\ pc \in {"api_send", "dl_send"} => Len(sleeps) = attempt
    /\ \A k \in 1 .. Len(sleeps) :
          sleeps[k].num = Pow(backoff, k) /\ sleeps[k].den = Pow(BackoffDen, k)
    /\ backoff > BackoffDen => StrictlyIncreasing(sleeps)
    /\ (backoff <= BackoffDen /\ Len(sleeps) >= 2) => ~StrictlyIncreasing(sleeps)
    /\ backoff < 0 => sleeps = <<>>

C3_Witness ==
    /\ backoff = DefaultBackoff
    /\ Len(sleeps) = 2
    /\ sleeps[1] = [num |-> 2 * BackoffDen, den |-> BackoffDen]
    /\ FracLess(sleeps[1], sleeps[2])
    /\ pc = "api_send"

\* C4: an HTTP error response of the API whose status is not in {429, 500, 502,
\* 503, 504} is terminal whatever its body: it is the last request of the run
\* (the only one when it is the first response) and the run ends with exit
\* code 2.
C4_TerminalStatus ==
    (loop = "api" /\ ~ApiReturned) =>
       \A i \in 1 .. Len(hist) :
          (hist[i].kind = "http" /\ hist[i].code \notin _RETRYABLE_CODES) =>
             /\ i = Len(hist)
             /\ nApiReq = i
             /\ pc = "done"
             /\ exit_code = EXIT_API

\* C5 as stated: an HTTP 400 whose error code is content_policy_violation, as
\* the provider's answer to the request, ends the run with exit code 2 after
\* one request and no sleep, reported as a content-policy violation.
C5_Original ==
    (InApiLoop /\ Len(hist) = 1 /\ hist[1] = H("http", 400) /\ errBody = "policy") =>
       /\ pc = "done"
       /\ exit_code = EXIT_API
       /\ nApiReq = 1
       /\ nApiSleep = 0
       /\ report = "content_policy"

\* C5 amended: in the OpenAI CLI (api_request and api_edit_request) an HTTP 400
\* whose error code is content_policy_violation ends the run with exit code 2
\* and the report "content policy violation", with no request and no sleep
\* after it (one request and no sleep when it answers the first request); the
\* Grok CLI ends with exit code 2 after the same response and as few requests,
\* but reports it as the generic "xAI API returned 400".
C5_ContentPolicy ==
    (InApiLoop /\ Len(hist) >= 1 /\ Last(hist) = H("http", 400) /\ errBody = "policy") =>
       /\ pc = "done"
       /\ exit_code = EXIT_API
       /\ nApiReq = Len(hist)
       /\ nApiSleep = Len(hist) - 1
       /\ Len(hist) = 1 => (nApiReq = 1 /\ nApiSleep = 0)
       /\ report = IF fn \in OpenAIFns THEN "content_policy" ELSE "api_status"

C5_Witness ==
    /\ fn = "api_edit_request"
    /\ Codes(hist) = <<400>>
    /\ errBody = "policy"
    /\ report = "content_policy"
    /\ exit_code = EXIT_API
    /\ nApiReq = 1
    /\ nApiSleep = 0

-----------------------------------------------------------------------------
(* Claims about the persisting of the image, checked under Spec *)

\* the positions of main after tmp_path.rename(output)
AfterRename == {"meta", "meta_open", "meta_write", "meta_rename", "finish", "done"}

Unchanged(path) == IF existed THEN IsOld(path) ELSE ~Exists(path)

\* C7: in every state of a run, failed writes and renames included, the file at
\* the output path is absent or unchanged from before the run, or holds the
\* complete new image; it holds the new image only once the rename has
\* succeeded, and a partly written image is never at the output path.
C7_OutputNeverPartial ==
    /\ Unchanged(OutPath) \/ IsImageOf(OutPath, Me)
    /\ IsImageOf(OutPath, Me) =>
          (pc \in AfterRename /\ nRename >= 1 /\ ioFail # "rename")
    /\ (nRename = 0 \/ ioFail = "rename") => Unchanged(OutPath)

\* C8: a failure of the write of the temporary file or of its rename is a
\* terminal save error in both CLIs: the run ends with exit code 3 and neither
\* the write, nor the rename, nor the request is made again.
C8_SaveErrorTerminal ==
    ioFail # "none" =>
       /\ pc = "done"
       /\ exit_code = EXIT_SAVE
       /\ nWrite <= 1
       /\ nRename <= 1
       /\ nDlReq <= 1

-----------------------------------------------------------------------------
(* Two runs of the OpenAI or Grok CLI with the same output path *)

RunIdle ==
    /\ output = DefaultOutput
    /\ fn = "none"
    /\ retries = 0
    /\ backoff = 0
    /\ pc = "idle"
    /\ attempt = 0
    /\ loop = "none"
    /\ hist = <<>>
    /\ sleeps = <<>>
    /\ result = "none"
    /\ exit_code = Running
    /\ report = "none"
    /\ errBody = "none"
    /\ ioFail = "none"
    /\ nApiReq = 0
    /\ nApiSleep = 0
    /\ nDlReq = 0
    /\ nDlSleep = 0
    /\ nWrite = 0
    /\ nRename = 0
    /\ stdout = <<>>

InitConc ==
    /\ RunIdle
    /\ Hy3Idle
    /\ FsInit
    /\ ExtIdle
    /\ ckind \in [Procs -> {"openai", "grok"}]
    /\ cpc = [p \in Procs |-> "fetch"]
    /\ cexit = [p \in Procs |-> Running]

CGoto(p, where) ==
    /\ cpc' = [cpc EXCEPT ![p] = where]
    /\ UNCHANGED <<ckind, cexit>>

CExit(p, code) ==
    /\ cpc' = [cpc EXCEPT ![p] = "done"]
    /\ cexit' = [cexit EXCEPT ![p] = code]
    /\ UNCHANGED ckind

\* main up to the point where the image bytes are in memory (OpenAI: after
\* base64.b64decode; Grok: after resp.read() in _download), or the failure of
\* the transport
CFetch(p) ==
    /\ cpc[p] = "fetch"
    /\ \/ CGoto(p, "mkdir")
       \/ CExit(p, EXIT_API)
    /\ UNCHANGED <<runVars, fsVars, hy3Vars, extVars>>

\* output.parent.mkdir(parents=True, exist_ok=True); in the Grok CLI it
\* precedes _download
CMkdir(p) ==
    /\ cpc[p] = "mkdir"
    /\ parent' = TRUE
    /\ CGoto(p, "open")
    /\ UNCHANGED <<runVars, existed, hadParent, names, files, fd, hy3Vars, extVars>>

\* write_bytes on the temporary path of the run: the open
COpen(p) ==
    /\ cpc[p] = "open"
    /\ FsOpenTrunc(p, TmpPath(OutPath))
    /\ CGoto(p, "write")
    /\ UNCHANGED <<runVars, parent, existed, hadParent, hy3Vars, extVars>>

\* write_bytes: one write call; the last one is followed by the close
CWrite(p) ==
    /\ cpc[p] = "write"
    /\ IF fd[p].off + 1 >= ImgLen
       THEN /\ FsWriteClose(p)
            /\ CGoto(p, IF ckind[p] = "openai" THEN "rename" ELSE "read_back")
       ELSE /\ FsWrite(p)
            /\ UNCHANGED concVars
    /\ UNCHANGED <<runVars, parent, existed, hadParent, hy3Vars, extVars>>

\* img_data = tmp_path.read_bytes() (Grok): FileNotFoundError when the
\* temporary file is gone, uncaught
CReadBack(p) ==
    /\ cpc[p] = "read_back"
    /\ IF Exists(TmpPath(OutPath))
       THEN CGoto(p, "rename")
       ELSE CExit(p, EXIT_UNCAUGHT)
    /\ UNCHANGED <<runVars, fsVars, hy3Vars, extVars>>

\* tmp_path.rename(output): FileNotFoundError when the temporary file is gone;
\* the OpenAI CLI returns 3, the Grok CLI does not catch it
CRename(p) ==
    /\ cpc[p] = "rename"
    /\ IF Exists(TmpPath(OutPath))
       THEN /\ FsRename(TmpPath(OutPath), OutPath)
            /\ CGoto(p, "finish")
       ELSE /\ CExit(p, IF ckind[p] = "openai" THEN EXIT_SAVE ELSE EXIT_UNCAUGHT)
            /\ UNCHANGED <<names, files, fd>>
    /\ UNCHANGED <<runVars, parent, existed, hadParent, hy3Vars, extVars>>

\* print(f"MEDIA: {output}"); return 0
CFinish(p) ==
    /\ cpc[p] = "finish"
    /\ CExit(p, EXIT_OK)
    /\ UNCHANGED <<runVars, fsVars, hy3Vars, extVars>>

NextConc ==
    \E p \in Procs :
        \/ CFetch(p)
        \/ CMkdir(p)
        \/ COpen(p)
        \/ CWrite(p)
        \/ CReadBack(p)
        \/ CRename(p)
        \/ CFinish(p)

SpecConc == InitConc /\ [][NextConc]_vars

\* C10: with two runs on one output path, the file at the output path is at
\* all times absent or the previous content, or the complete image of one of
\* the two runs, and no run fails because of the other: a run whose transport
\* succeeded ends with exit code 0.
C10_LastRenameWins ==
    /\ Unchanged(OutPath) \/ \E p \in Procs : IsImageOf(OutPath, p)
    /\ \A p \in Procs : cexit[p] \in {Running, EXIT_OK, EXIT_API}

-----------------------------------------------------------------------------
(* One run of the HY3 CLI *)

\* what the remote "curl -s ... /generate" can print when it exits 0:
\*   ok_true    a JSON object with "ok": true
\*   ok_false   a JSON object with "ok": false
\*   ok_missing a JSON object without "ok"
\*   nonobject  valid JSON that is not an object
\*   badjson    not JSON
\*   empty      nothing
HyResponses == {"ok_true", "ok_false", "ok_missing", "nonobject", "badjson", "empty"}

\* the values of --out in the model
HOutArgs == {NoPath, RelPath("out", ".png"), PathOf("out", ".png")}
\* out_local = Path(args.out) if args.out else Path("/tmp") / f"hy3-{args.cmd}-{ts}.png"
out_local ==
    IF hargs.out # NoPath THEN hargs.out
    ELSE [dir |-> TmpDir, stem |-> "hy3-" \o hcmd \o "-ts", suffix |-> ".png"]

HAbsent == [exists |-> FALSE, data |-> <<>>]
HOld == [exists |-> TRUE, data |-> OldData]
\* the image the remote server wrote to out_remote
HImage == Image(Me)
HComplete == hout = [exists |-> TRUE, data |-> HImage]
HPartial == hout.exists /\ hout.data # OldData /\ hout.data # HImage

InitHy3 ==
    /\ RunIdle
    /\ FsIdle
    /\ ConcIdle
    /\ ExtIdle
    /\ hcmd \in {"generate", "edit"}
    /\ hargs \in [out : HOutArgs]
    /\ hpc = "start"
    /\ hexit = Running
    /\ hreport = "none"
    /\ hresp = "none"
    /\ hparent \in BOOLEAN
    /\ hout \in (IF hparent THEN {HAbsent, HOld} ELSE {HAbsent})
    /\ hstdout = <<>>
    /\ hGen = 0

HExit(code, rep) ==
    /\ hpc' = "done"
    /\ hexit' = code
    /\ hreport' = rep

\* raise SystemExit(msg): the message goes to stderr, the exit status is 1
HSystemExit(msg) == HExit(EXIT_UNCAUGHT, msg)
\* _run(cmd) has check=True: a failing ssh or scp raises CalledProcessError,
\* which nothing catches
HCalledProcessError(cmd) == HExit(EXIT_UNCAUGHT, "CalledProcessError: " \o cmd)

\* main: for "edit", in_path.exists() and the _scp_to of the input image
HInput ==
    /\ hpc = "start"
    /\ IF hcmd = "edit"
       THEN \/ HSystemExit("input image not found")
            \/ HCalledProcessError("scp_to input")
            \/ /\ hpc' = "payload"
               /\ UNCHANGED <<hexit, hreport>>
       ELSE /\ hpc' = "payload"
            /\ UNCHANGED <<hexit, hreport>>
    /\ UNCHANGED <<hcmd, hargs, hresp, hout, hparent, hstdout, hGen>>
    /\ UNCHANGED <<runVars, fsVars, concVars, extVars>>

\* _call_generate: payload_local.write_text and _scp_to of the payload
HPayload ==
    /\ hpc = "payload"
    /\ \/ /\ hpc' = "curl"
          /\ UNCHANGED <<hexit, hreport>>
       \/ HCalledProcessError("scp_to payload")
    /\ UNCHANGED <<hcmd, hargs, hresp, hout, hparent, hstdout, hGen>>
    /\ UNCHANGED <<runVars, fsVars, concVars, extVars>>

\* if isinstance(j, dict) and not j.get("ok", False): raise SystemExit
\* (j is {} when the output is empty or is not JSON)
HyResponseAccepted(resp) == resp \in {"ok_true", "nonobject"}

\* _call_generate: the remote curl, its return code and its output
HCurl ==
    /\ hpc = "curl"
    /\ hGen' = hGen + 1
    /\ \/ /\ HSystemExit("remote curl failed")
          /\ UNCHANGED hresp
       \/ \E resp \in HyResponses :
            /\ hresp' = resp
            /\ IF HyResponseAccepted(resp)
               THEN /\ hpc' = "scp_mkdir"
                    /\ UNCHANGED <<hexit, hreport>>
               ELSE HSystemExit("HY3 error")
    /\ UNCHANGED <<hcmd, hargs, hout, hparent, hstdout>>
    /\ UNCHANGED <<runVars, fsVars, concVars, extVars>>

\* _scp_from: local_path.parent.mkdir(parents=True, exist_ok=True)
HScpMkdir ==
    /\ hpc = "scp_mkdir"
    /\ \/ /\ hparent' = TRUE
          /\ hpc' = "scp_start"
          /\ UNCHANGED <<hexit, hreport>>
       \/ /\ ~hparent
          /\ HExit(EXIT_UNCAUGHT, "OSError_mkdir")
          /\ UNCHANGED hparent
    /\ UNCHANGED <<hcmd, hargs, hresp, hout, hstdout, hGen>>
    /\ UNCHANGED <<runVars, fsVars, concVars, extVars>>

\* the path scp is given as its destination: str(local_path), the output path
ScpDest(local_path) == local_path

\* _scp_from: scp connects and opens its destination for writing, or fails
\* before it touches it (no connection, no such remote file)
HScpStart ==
    /\ hpc = "scp_start"
    /\ \/ /\ hout' = IF ScpDest(PStr(out_local)) = PStr(out_local)
                     THEN [exists |-> TRUE, data |-> <<>>] ELSE hout
          /\ hpc' = "scp_data"
          /\ UNCHANGED <<hexit, hreport>>
       \/ /\ HCalledProcessError("scp_from")
          /\ UNCHANGED hout
    /\ UNCHANGED <<hcmd, hargs, hresp, hparent, hstdout, hGen>>
    /\ UNCHANGED <<runVars, fsVars, concVars, extVars>>

\* _scp_from: scp transfers the next chunk into its destination, or fails
HScpData ==
    /\ hpc = "scp_data"
    /\ \/ /\ hout' = IF ScpDest(PStr(out_local)) = PStr(out_local)
                     THEN [hout EXCEPT !.data = Append(@, HImage[Len(@) + 1])]
                     ELSE hout
          /\ hpc' = IF Len(hout'.data) >= ImgLen \/ ScpDest(PStr(out_local)) # PStr(out_local)
                    THEN "print" ELSE "scp_data"
          /\ UNCHANGED <<hexit, hreport>>
       \/ /\ HCalledProcessError("scp_from")
          /\ UNCHANGED hout
    /\ UNCHANGED <<hcmd, hargs, hresp, hparent, hstdout, hGen>>
    /\ UNCHANGED <<runVars, fsVars, concVars, extVars>>

\* print(f"MEDIA: {out_local}"); main returns None
HPrint ==
    /\ hpc = "print"
    /\ hstdout' = Append(hstdout, MediaLine(PStr(out_local)))
    /\ HExit(EXIT_OK, "none")
    /\ UNCHANGED <<hcmd, hargs, hresp, hout, hparent, hGen>>
    /\ UNCHANGED <<runVars, fsVars, concVars, extVars>>

NextHy3 ==
    \/ HInput
    \/ HPayload
    \/ HCurl
    \/ HScpMkdir
    \/ HScpStart
    \/ HScpData
    \/ HPrint

SpecHy3 == InitHy3 /\ [][NextHy3]_vars

(* Claims about a run of the HY3 CLI, checked under SpecHy3 *)

\* C9: the image is copied into a local temporary path and only then promoted
\* to the output path, so a run of the HY3 CLI that has ended, a run whose copy
\* was interrupted or failed included, leaves no partial file at the output
\* path: the file there is absent, the previous one, or the complete image.
C9_NoPartialAtOutput ==
    hpc = "done" => ~HPartial

-----------------------------------------------------------------------------
(* Two runs of the OpenAI or Grok CLI with different output paths and        *)
(* different metadata paths: the file operations each run makes              *)

PairStems == {"a", "b"}
PairSuffixes == {".png", ".json", ".yaml"}
\* the paths given as --output and --metadata
PairPaths == {PathOf(st, su) : st \in PairStems, su \in PairSuffixes}

Op(p, op, path) == [proc |-> p, op |-> op, path |-> path]

InitPair ==
    /\ RunIdle
    /\ FsIdle
    /\ ConcIdle
    /\ Hy3Idle
    /\ MetaIdle
    /\ CliIdle
    /\ AuxIdle
    /\ Hy3PairIdle
    /\ pkind \in [Procs -> {"openai", "grok"}]
    /\ pargs \in [Procs -> [output : PairPaths, metadata : PairPaths]]
    /\ \A p \in Procs : pargs[p].output # pargs[p].metadata
    /\ \A p, q \in Procs :
          p # q => {pargs[p].output, pargs[p].metadata}
                      \cap {pargs[q].output, pargs[q].metadata} = {}
    /\ ppc = [p \in Procs |-> "write_tmp"]
    /\ ops = {}

\* the call returns and the run goes on, or it raises and the run ends
PGoto(p, where) ==
    /\ \E next \in {where, "done"} : ppc' = [ppc EXCEPT ![p] = next]
    /\ UNCHANGED <<pkind, pargs>>

\* tmp_path.write_bytes(img_data) (OpenAI main), dest.write_bytes(data) (_download)
PWriteTmp(p) ==
    /\ ppc[p] = "write_tmp"
    /\ ops' = ops \cup {Op(p, "write", TmpPath(PStr(pargs[p].output)))}
    /\ PGoto(p, IF pkind[p] = "grok" THEN "read_tmp" ELSE "rename")
    /\ UNCHANGED <<runVars, fsVars, concVars, hy3Vars, metaVars, hpairVars, cliVars, auxVars>>

\* img_data = tmp_path.read_bytes() (Grok main)
PReadBack(p) ==
    /\ ppc[p] = "read_tmp"
    /\ ops' = ops \cup {Op(p, "read", TmpPath(PStr(pargs[p].output)))}
    /\ PGoto(p, "rename")
    /\ UNCHANGED <<runVars, fsVars, concVars, hy3Vars, metaVars, hpairVars, cliVars, auxVars>>

\* tmp_path.rename(output)
PRename(p) ==
    /\ ppc[p] = "rename"
    /\ ops' = ops \cup {Op(p, "rename", TmpPath(PStr(pargs[p].output))),
                        Op(p, "rename", PStr(pargs[p].output))}
    /\ PGoto(p, "meta_write")
    /\ UNCHANGED <<runVars, fsVars, concVars, hy3Vars, metaVars, hpairVars, cliVars, auxVars>>

\* write_metadata: tmp.write_text(...)
PMetaWrite(p) ==
    /\ ppc[p] = "meta_write"
    /\ ops' = ops \cup {Op(p, "write", MetaTmp(pargs[p].metadata))}
    /\ PGoto(p, "meta_rename")
    /\ UNCHANGED <<runVars, fsVars, concVars, hy3Vars, metaVars, hpairVars, cliVars, auxVars>>

\* write_metadata: tmp.rename(meta_path)
PMetaRename(p) ==
    /\ ppc[p] = "meta_rename"
    /\ ops' = ops \cup {Op(p, "rename", MetaTmp(pargs[p].metadata)),
                        Op(p, "rename", PStr(pargs[p].metadata))}
    /\ PGoto(p, "done")
    /\ UNCHANGED <<runVars, fsVars, concVars, hy3Vars, metaVars, hpairVars, cliVars, auxVars>>

NextPair ==
    \E p \in Procs :
        \/ PWriteTmp(p)
        \/ PReadBack(p)
        \/ PRename(p)
        \/ PMetaWrite(p)
        \/ PMetaRename(p)

SpecPair == InitPair /\ [][NextPair]_vars

\* C11: two concurrent runs whose output paths differ and whose metadata paths
\* differ never interfere: no path that one run writes, renames or reads
\* (output, output temp file, sidecar, sidecar temp file) is written, renamed
\* or read by the other run.
C11_DifferentPathsIndependent ==
    \A o1, o2 \in ops : o1.proc # o2.proc => o1.path # o2.path

-----------------------------------------------------------------------------
(* Two runs of the HY3 CLI: the local and remote files each run uses *)

\* the clock ticks TicksPerSec times a second (two runs that start at
\* different instants can start within the same second)
TicksPerSec == 1 + 1
\* int(time.time()) and time.strftime("%Y%m%d-%H%M%S"): the clock in whole seconds
Seconds(t) == t \div TicksPerSec

\* payload_local = Path("/tmp") / f"hy3_payload_{int(time.time())}.json"
PayloadLocal(sec) == <<"local", "/tmp/hy3_payload_", sec, ".json">>
\* payload_remote = f"{remote_tmp}/hy3_payload_{int(time.time())}.json"
PayloadRemote(sec) == <<"remote", "hy3_payload_", sec, ".json">>
\* image_remote = f"{remote_tmp}/hy3_input_{ts}{in_path.suffix.lower()}"
ImageRemote(ts, suffix) == <<"remote", "hy3_input_", ts, suffix>>
\* out_remote = f"{remote_tmp}/hy3_out_{args.cmd}_{ts}.png"
OutRemote(cmd, ts) == <<"remote", "hy3_out_" \o cmd \o "_", ts, ".png">>

QOp(p, op, name) == [proc |-> p, op |-> op, name |-> name]

InitHy3Pair ==
    /\ RunIdle
    /\ FsIdle
    /\ ConcIdle
    /\ Hy3Idle
    /\ MetaIdle
    /\ CliIdle
    /\ AuxIdle
    /\ PairIdle
    /\ clock = 0
    /\ qargs \in [Procs -> [cmd : {"generate", "edit"}, suffix : {".png", ".jpg"}]]
    /\ \A p \in Procs : qargs[p].cmd = "generate" => qargs[p].suffix = ".png"
    /\ qpc = [p \in Procs |-> "start"]
    /\ qts = [p \in Procs |-> 0]
    /\ qpay = [p \in Procs |-> [loc |-> 0, rem |-> 0]]
    /\ qops = {}

\* time passes
Tick ==
    /\ clock < MaxClock
    /\ clock' = clock + 1
    /\ UNCHANGED <<qargs, qpc, qts, qpay, qops>>
    /\ UNCHANGED <<runVars, fsVars, concVars, hy3Vars, metaVars, pairVars, cliVars, auxVars>>

\* the call returns and the run goes on, or it raises and the run ends
QGoto(p, where) ==
    /\ \E next \in {where, "done"} : qpc' = [qpc EXCEPT ![p] = next]
    /\ UNCHANGED <<clock, qargs>>

\* main: ts = time.strftime("%Y%m%d-%H%M%S")
QStart(p) ==
    /\ qpc[p] = "start"
    /\ qts' = [qts EXCEPT ![p] = Seconds(clock)]
    /\ qpc' = [qpc EXCEPT ![p] = IF qargs[p].cmd = "edit" THEN "scp_input" ELSE "payload"]
    /\ UNCHANGED <<clock, qargs, qpay, qops>>
    /\ UNCHANGED <<runVars, fsVars, concVars, hy3Vars, metaVars, pairVars, cliVars, auxVars>>

\* main: _scp_to(host, key, in_path, image_remote)
QScpInput(p) ==
    /\ qpc[p] = "scp_input"
    /\ qops' = qops \cup {QOp(p, "write", ImageRemote(qts[p], qargs[p].suffix))}
    /\ QGoto(p, "payload")
    /\ UNCHANGED <<qts, qpay>>
    /\ UNCHANGED <<runVars, fsVars, concVars, hy3Vars, metaVars, pairVars, cliVars, auxVars>>

\* _call_generate: payload_local is named and written, payload_remote is named
\* by a second reading of the clock
QPayload(p) ==
    /\ qpc[p] = "payload"
    /\ \E later \in {0, 1} :
          qpay' = [qpay EXCEPT ![p] = [loc |-> Seconds(clock),
                                       rem |-> Seconds(clock + later)]]
    /\ qops' = qops \cup {QOp(p, "write", PayloadLocal(Seconds(clock)))}
    /\ QGoto(p, "scp_payload")
    /\ UNCHANGED qts
    /\ UNCHANGED <<runVars, fsVars, concVars, hy3Vars, metaVars, pairVars, cliVars, auxVars>>

\* _call_generate: _scp_to(host, key, payload_local, payload_remote)
QScpPayload(p) ==
    /\ qpc[p] = "scp_payload"
    /\ qops' = qops \cup {QOp(p, "read", PayloadLocal(qpay[p].loc)),
                          QOp(p, "write", PayloadRemote(qpay[p].rem))}
    /\ QGoto(p, "curl")
    /\ UNCHANGED <<qts, qpay>>
    /\ UNCHANGED <<runVars, fsVars, concVars, hy3Vars, metaVars, pairVars, cliVars, auxVars>>

\* _call_generate: curl --data-binary @payload_remote; the server reads the
\* input image named in the payload and writes the image to payload["out"]
QCurl(p) ==
    /\ qpc[p] = "curl"
    /\ qops' = qops
          \cup {QOp(p, "read", PayloadRemote(qpay[p].rem)),
                QOp(p, "write", OutRemote(qargs[p].cmd, qts[p]))}
          \cup (IF qargs[p].cmd = "edit"
                THEN {QOp(p, "read", ImageRemote(qts[p], qargs[p].suffix))} ELSE {})
    /\ QGoto(p, "scp_from")
    /\ UNCHANGED <<qts, qpay>>
    /\ UNCHANGED <<runVars, fsVars, concVars, hy3Vars, metaVars, pairVars, cliVars, auxVars>>

\* main: _scp_from(host, key, out_remote, out_local)
QScpFrom(p) ==
    /\ qpc[p] = "scp_from"
    /\ qops' = qops \cup {QOp(p, "read", OutRemote(qargs[p].cmd, qts[p]))}
    /\ QGoto(p, "done")
    /\ UNCHANGED <<qts, qpay>>
    /\ UNCHANGED <<runVars, fsVars, concVars, hy3Vars, metaVars, pairVars, cliVars, auxVars>>

NextHy3Pair ==
    \/ Tick
    \/ \E p \in Procs :
        \/ QStart(p)
        \/ QScpInput(p)
        \/ QPayload(p)
        \/ QScpPayload(p)
        \/ QCurl(p)
        \/ QScpFrom(p)

SpecHy3Pair == InitHy3Pair /\ [][NextHy3Pair]_vars

\* C12: concurrent runs of the HY3 CLI share no mutable state: the local
\* payload file, the remote payload file, the remote input image and the
\* remote output file that one run writes or reads are never written or read
\* by another run, whatever the start times of the runs.
C12_NoSharedFiles ==
    \A o1, o2 \in qops : o1.proc # o2.proc => o1.name # o2.name

-----------------------------------------------------------------------------
(* One run of any of the three CLIs *)

InitAll == Init \/ InitHy3
NextAll == Next \/ NextHy3
SpecAll == InitAll /\ [][NextAll]_vars

\* C13: every successful run of each of the three CLIs (exit status 0) has
\* written exactly one line to standard output, "MEDIA: <path>", where <path>
\* is the absolute local path at which the image is; no CLI writes a line to
\* standard output before the complete image is at that path.
C13_MediaLine ==
    /\ (pc = "done" /\ exit_code = EXIT_OK) =>
          /\ stdout = <<MediaLine(PStr(output))>>
          /\ IsAbsolute(output)
    /\ stdout # <<>> => IsImageOf(PStr(output), Me)
    /\ (hpc = "done" /\ hexit = EXIT_OK) =>
          /\ hstdout = <<MediaLine(PStr(out_local))>>
          /\ IsAbsolute(out_local)
    /\ hstdout # <<>> => HComplete

-----------------------------------------------------------------------------
(* Malformed responses *)

\* the last answer of the API was a 2xx whose body json.loads rejected
\* (nothing was returned) or that lacks the data list or the image field
MalformedKinds == {"none", "nonobject", "nodata", "nofield"}
MalformedResponse ==
    /\ loop = "api"
    /\ hist # <<>>
    /\ Last(hist).kind = "ok"
    /\ result \in MalformedKinds

NoFileWritten ==
    /\ nWrite = 0
    /\ \A path \in Paths : names[path] = IF existed /\ path = OutPath THEN 1 ELSE 0
    /\ existed => IsOld(OutPath)

\* C14: a run of the OpenAI or Grok CLI whose API answer was a 2xx with a
\* malformed body (not JSON, not an object, data missing or empty, first item
\* without the image field) ends with exit code 2 and has written no file.
C14_MalformedExitsApi ==
    (pc = "done" /\ MalformedResponse) =>
        /\ exit_code = EXIT_API
        /\ NoFileWritten

-----------------------------------------------------------------------------
(* HY3 failure categories *)

\* the remote curl failed, or the server answered ok false (or without ok)
HyUpstreamFailure == hreport \in {"remote curl failed", "HY3 error"}
\* _scp_from failed: its mkdir, or the scp itself
HyCopyFailure == hreport \in {"OSError_mkdir", "CalledProcessError: scp_from"}
\* edit: the input image does not exist
HyMissingInput == hreport = "input image not found"

\* C15: a finished HY3 run has exit code 2 when the upstream service failed
\* (remote curl failing, or a response with ok false), exit code 3 when the
\* copy of the result failed, and exit code 4 when the input image is missing.
C15_Hy3ExitCodes ==
    hpc = "done" =>
        /\ HyUpstreamFailure => hexit = EXIT_API
        /\ HyCopyFailure => hexit = EXIT_SAVE
        /\ HyMissingInput => hexit = EXIT_ARGS

-----------------------------------------------------------------------------
(* The start of main: the checks of the arguments and resolve_api_key *)

\* MODEL_CAPS; a list is modelled by the set of its elements, and the key
\* "styles", read with caps.get("styles", []), is empty where the table has none
GPT_IMAGE_MODELS == {"gpt-image-1.5", "gpt-image-1", "gpt-image-1-mini"}
GptCaps ==
    [sizes |-> {"1024x1024", "1024x1536", "1536x1024"},
     qualities |-> {"low", "medium", "high"},
     formats |-> {"png", "jpeg", "webp"},
     backgrounds |-> {"transparent", "opaque", "auto"},
     supports_style |-> FALSE,
     styles |-> {}]
MODEL_CAPS ==
    [m \in GPT_IMAGE_MODELS \cup {"dall-e-3", "dall-e-2"} |->
        CASE m \in GPT_IMAGE_MODELS -> GptCaps
          [] m = "dall-e-3" ->
               [sizes |-> {"1024x1024", "1792x1024", "1024x1792"},
                qualities |-> {"standard", "hd"},
                formats |-> {"png"},
                backgrounds |-> {},
                supports_style |-> TRUE,
                styles |-> {"vivid", "natural"}]
          [] OTHER ->
               [sizes |-> {"256x256", "512x512", "1024x1024"},
                qualities |-> {"standard"},
                formats |-> {"png"},
                backgrounds |-> {},
                supports_style |-> FALSE,
                styles |-> {}]]
ALL_MODELS == DOMAIN MODEL_CAPS
is_gpt_image(model) == model \in GPT_IMAGE_MODELS

\* the default of --background in build_parser
DefaultBackground == "auto"

\* validate_params: the set of the parameters it reports an error for
validate_params(model, size, quality, fmt, background, style) ==
    LET caps == MODEL_CAPS[model] IN
    {e \in {"size", "quality", "format", "background", "style"} :
        \/ e = "size" /\ size \notin caps.sizes
        \/ e = "quality" /\ quality \notin caps.qualities
        \/ e = "format" /\ fmt # "" /\ caps.formats # {} /\ fmt \notin caps.formats
        \/ e = "background" /\ background # ""
                              /\ (caps.backgrounds = {} \/ background \notin caps.backgrounds)
        \/ e = "style" /\ style # ""
                         /\ (~caps.supports_style \/ style \notin caps.styles)}

\* the arguments tried: per option, values the table allows for some model
\* and values it allows for none; --image names an existing file, a missing
\* file, or is not given
CliArgChoices ==
    [model : {"gpt-image-1", "dall-e-3"},
     size : {"1024x1024", "256x256"},
     quality : {"high", "standard"},
     fmt : {"png", "webp"},
     background : {DefaultBackground, "bogus"},
     style : {"", "vivid"},
     image : {"", "exists", "missing"}]

\* strings of the characters " " (whitespace) and "k", as sequences
KeyChars == {" ", "k"}
KeyStrings == UNION {[1 .. n -> KeyChars] : n \in 0 .. MaxKeyLen}
IsSpace(c) == c = " "

\* str.strip()
RECURSIVE LStrip(_)
LStrip(s) == IF s # <<>> /\ IsSpace(Head(s)) THEN LStrip(Tail(s)) ELSE s
RECURSIVE RStrip(_)
RStrip(s) == IF s # <<>> /\ IsSpace(s[Len(s)]) THEN RStrip(SubSeq(s, 1, Len(s) - 1)) ELSE s
Strip_None(s) == s
Strip(s) == RStrip(LStrip(s))

\* subprocess.run(["op", "read", ...], timeout=15): op exits with a return
\* code and an output, is not installed, or times out
OpResults ==
    [kind : {"exit"}, returncode : {0, 1}, stdout : KeyStrings]
    \cup [kind : {"FileNotFoundError", "TimeoutExpired"}, returncode : {0}, stdout : {<<>>}]

\* if result.returncode == 0 and key: return key
OpSucceeded(res) == res.kind = "exit" /\ res.returncode = 0 /\ Strip(res.stdout) # <<>>

\* the API function main goes on to call
CliFn == IF cli = "grok" THEN "_api_generate"
         ELSE IF cargs.image # "" THEN "api_edit_request" ELSE "api_request"

InitCli ==
    /\ cli \in {"openai", "grok"}
    /\ cargs \in (IF cli = "openai" THEN CliArgChoices ELSE {NoCliArgs})
    /\ output_is_dir \in BOOLEAN
    /\ env \in KeyStrings
    /\ nOp = 0
    /\ opres = NoOpResult
    /\ api_key = <<>>
    /\ output \in Outputs
    /\ fn = CliFn
    /\ retries = 0
    /\ backoff = DefaultBackoff
    /\ pc = "cli_start"
    /\ attempt = 0
    /\ loop = "api"
    /\ hist = <<>>
    /\ sleeps = <<>>
    /\ result = "none"
    /\ exit_code = Running
    /\ report = "none"
    /\ errBody = "none"
    /\ ioFail = "none"
    /\ nApiReq = 0
    /\ nApiSleep = 0
    /\ nDlReq = 0
    /\ nDlSleep = 0
    /\ nWrite = 0
    /\ nRename = 0
    /\ stdout = <<>>
    /\ FsInit
    /\ output_is_dir => (parent /\ ~existed)
    /\ ConcIdle
    /\ Hy3Idle
    /\ MetaIdle
    /\ PairIdle
    /\ Hy3PairIdle
    /\ AuxIdle

CliFrame ==
    /\ UNCHANGED <<cfgVars, loopVars, result, errBody, ioFail, apiCnt, dlCnt, ioCnt, stdout>>
    /\ UNCHANGED <<fsVars, concVars, hy3Vars, metaVars, pairVars, hpairVars>>
    /\ UNCHANGED <<cli, cargs, output_is_dir, env>>
    /\ UNCHANGED auxVars

\* main: output = Path(args.output).resolve(); if output.is_dir(): return 4
CliOutputCheck ==
    /\ pc = "cli_start"
    /\ IF output_is_dir
       THEN Exit(EXIT_ARGS, "output_is_dir")
       ELSE /\ pc' = IF cli = "openai" THEN "validate" ELSE "resolve_key"
            /\ UNCHANGED endVars
    /\ UNCHANGED <<nOp, opres, api_key>>
    /\ CliFrame

\* main (OpenAI): the background is cleared for the models that are not GPT
\* image models, then validate_params; if errors: return 4
CliValidate ==
    /\ pc = "validate"
    /\ LET background == IF is_gpt_image(cargs.model) THEN cargs.background ELSE ""
           errors == validate_params(cargs.model, cargs.size, cargs.quality, cargs.fmt,
                                     background, cargs.style)
       IN IF errors # {}
          THEN Exit(EXIT_ARGS, "invalid_params")
          ELSE /\ pc' = "resolve_key"
               /\ UNCHANGED endVars
    /\ UNCHANGED <<nOp, opres, api_key>>
    /\ CliFrame

\* the position of main after resolve_api_key returned
AfterKey == IF cli = "openai" THEN "edit_check" ELSE "api_head"

\* resolve_api_key: key = os.environ.get(NAME, "").strip(); if key: return key
CliEnvKey ==
    /\ pc = "resolve_key"
    /\ IF Strip(env) # <<>>
       THEN /\ api_key' = Strip(env)
            /\ pc' = AfterKey
       ELSE /\ pc' = "op_read"
            /\ UNCHANGED api_key
    /\ UNCHANGED <<endVars, nOp, opres>>
    /\ CliFrame

\* resolve_api_key: subprocess.run of "op read", the test of its result, the
\* two exceptions that are passed over, and sys.exit(1)
CliOpRead ==
    /\ pc = "op_read"
    /\ nOp' = nOp + 1
    /\ \E res \in OpResults :
        /\ opres' = res
        /\ IF OpSucceeded(res)
           THEN /\ api_key' = Strip(res.stdout)
                /\ pc' = AfterKey
                /\ UNCHANGED endVars
           ELSE /\ Exit(EXIT_AUTH, "no_api_key")
                /\ UNCHANGED api_key
    /\ CliFrame

\* main (OpenAI): edit_mode = bool(args.image); if the reference image does
\* not exist: return 4
CliEditCheck ==
    /\ pc = "edit_check"
    /\ IF cargs.image = "missing"
       THEN Exit(EXIT_ARGS, "image_not_found")
       ELSE /\ pc' = "api_head"
            /\ UNCHANGED endVars
    /\ UNCHANGED <<nOp, opres, api_key>>
    /\ CliFrame

NextCli ==
    \/ CliOutputCheck
    \/ CliValidate
    \/ CliEnvKey
    \/ CliOpRead
    \/ CliEditCheck
    \/ Next

SpecCli == InitCli /\ [][NextCli]_vars

\* an option of the run has a value that the capability table of its model
\* does not allow (for --background, a value other than the default the
\* parser supplies; for --style, a value other than "not given")
SizeInvalid == cargs.size \notin MODEL_CAPS[cargs.model].sizes
QualityInvalid == cargs.quality \notin MODEL_CAPS[cargs.model].qualities
FormatInvalid == cargs.fmt \notin MODEL_CAPS[cargs.model].formats
BackgroundInvalid ==
    /\ cargs.background # DefaultBackground
    /\ cargs.background \notin MODEL_CAPS[cargs.model].backgrounds
StyleInvalid ==
    /\ cargs.style # ""
    /\ cargs.style \notin MODEL_CAPS[cargs.model].styles
ImageMissing == cargs.image = "missing"
ArgsInvalid ==
    /\ cli = "openai"
    /\ \/ SizeInvalid
       \/ QualityInvalid
       \/ FormatInvalid
       \/ BackgroundInvalid
       \/ StyleInvalid
       \/ output_is_dir
       \/ ImageMissing

\* C16: a run of the OpenAI CLI whose arguments are invalid (size, quality,
\* format, background or style not allowed by the capability table of the
\* model, output path a directory, edit-mode reference image missing) issues
\* no HTTP request and, once it has ended, has exit code 4.
C16_InvalidArgsExit4 ==
    ArgsInvalid =>
        /\ nApiReq = 0
        /\ nDlReq = 0
        /\ pc = "done" => exit_code = EXIT_ARGS

-----------------------------------------------------------------------------
(* resolve_api_key *)

\* the string has a character that is not whitespace
HasKeyChar(s) == \E i \in 1 .. Len(s) : ~IsSpace(s[i])
\* k starts and ends with a character that is not whitespace
Trimmed(k) == k # <<>> /\ ~IsSpace(k[1]) /\ ~IsSpace(k[Len(k)])
\* s is k with whitespace before and after it
Padded(s, k) ==
    \E i \in 0 .. Len(s) :
        /\ i + Len(k) <= Len(s)
        /\ SubSeq(s, i + 1, i + Len(k)) = k
        /\ \A m \in 1 .. i : IsSpace(s[m])
        /\ \A m \in i + Len(k) + 1 .. Len(s) : IsSpace(s[m])
\* the call of the secret manager exited non-zero, gave no output but
\* whitespace, was not installed or timed out
OpFailed(res) ==
    \/ res.kind \in {"FileNotFoundError", "TimeoutExpired"}
    \/ res.kind = "exit" /\ (res.returncode # 0 \/ ~HasKeyChar(res.stdout))
\* resolve_api_key has returned or has ended the process
KeyLookupOver == api_key # <<>> \/ report = "no_api_key"

\* C17 as stated: a non-empty environment value is returned as it is without
\* invoking the secret manager; otherwise the secret manager is invoked
\* exactly once, and when that call fails the process ends with exit code 1,
\* with no second lookup and no API request.
C17_Original ==
    /\ nOp <= 1
    /\ env # <<>> => nOp = 0
    /\ (env # <<>> /\ KeyLookupOver) => api_key = env
    /\ (env = <<>> /\ KeyLookupOver) => nOp = 1
    /\ (nOp = 1 /\ OpFailed(opres)) =>
          /\ pc = "done" /\ exit_code = EXIT_AUTH
          /\ nApiReq = 0 /\ nDlReq = 0

\* C17: when the environment value has a character that is not whitespace,
\* resolve_api_key returns that value stripped of surrounding whitespace
\* without invoking the secret manager; otherwise (value unset, empty or all
\* whitespace) it invokes the secret manager exactly once and returns its
\* stripped output, and when that call exits non-zero, gives no output but
\* whitespace, is not installed or times out, the process ends with exit
\* code 1, with no second lookup and no API request; no request is issued
\* without a key.
C17_ResolveApiKey ==
    /\ nOp <= 1
    /\ HasKeyChar(env) => nOp = 0
    /\ (HasKeyChar(env) /\ KeyLookupOver) => (Trimmed(api_key) /\ Padded(env, api_key))
    /\ (~HasKeyChar(env) /\ KeyLookupOver) => nOp = 1
    /\ (nOp = 1 /\ OpFailed(opres)) =>
          /\ pc = "done" /\ exit_code = EXIT_AUTH
          /\ api_key = <<>>
          /\ nApiReq = 0 /\ nDlReq = 0
    /\ (nOp = 1 /\ ~OpFailed(opres)) =>
          (Trimmed(api_key) /\ Padded(opres.stdout, api_key))
    /\ nApiReq + nDlReq > 0 => api_key # <<>>

\* the environment value is a blank, the secret manager was invoked and timed
\* out, and the run has ended
C17_Witness ==
    /\ pc = "done"
    /\ env = <<" ">>
    /\ nOp = 1
    /\ opres.kind = "TimeoutExpired"
    /\ exit_code = EXIT_AUTH

-----------------------------------------------------------------------------
(* The metadata sidecar *)

\* tmp_path.rename(output) has succeeded
RenameDone == nRename >= 1 /\ ioFail # "rename" /\ pc \in AfterRename
\* the file at path holds the JSON of the sidecar, whole or in part
HoldsSidecar(path) ==
    /\ Exists(path)
    /\ Data(path) # <<>>
    /\ IsMetaPrefix(Data(path), Me)
\* the paths of the image and of its temp file
ImagePaths == {OutPath, TmpPath(OutPath)}
InWriteMetadata == pc \in {"meta_open", "meta_write", "meta_rename"}

\* C18: the sidecar is written only when a sidecar path is supplied and only
\* after the image has been renamed onto the output path: whenever
\* write_metadata is running, or a file holds sidecar JSON, a sidecar path was
\* supplied and the rename of the image has succeeded; as long as the rename
\* has not succeeded (the image absent from the output path or partly written
\* in its temp file, or the run failed before the rename) no file exists but
\* the output file as it was before the run and the image's temp file.
C18_SidecarAfterImage ==
    /\ (InWriteMetadata \/ \E path \in Paths : HoldsSidecar(path)) =>
          (meta # NoPath /\ RenameDone)
    /\ ~RenameDone =>
          /\ meta = NoPath
          /\ Unchanged(OutPath)
          /\ \A path \in Paths \ ImagePaths : ~Exists(path)
          /\ \A path \in Paths : ~HoldsSidecar(path)
    /\ meta = NoPath => \A path \in Paths \ ImagePaths : ~Exists(path)

\* a run that ended with exit code 0 with the image at the output path and
\* the whole sidecar at the sidecar path
C18_Witness ==
    /\ pc = "done"
    /\ exit_code = EXIT_OK
    /\ IsImageOf(OutPath, Me)
    /\ meta # NoPath
    /\ Exists(PStr(meta))
    /\ Data(PStr(meta)) = MetaDoc(Me)

\* C19: write_metadata writes the JSON to the sidecar path with ".tmp"
\* appended and renames that file onto the sidecar path; whatever the sidecar
\* path, the file at it never holds anything but the complete JSON.
C19_SidecarNeverPartial ==
    meta # NoPath =>
        /\ MetaTmp(meta) = PStr(meta) \o ".tmp"
        /\ Exists(PStr(meta)) => Data(PStr(meta)) = MetaDoc(Me)

-----------------------------------------------------------------------------
(* The delivered image *)

\* image_dimensions(data): the sniffers read the head of the data only; the
\* first chunk stands for it, and there are no dimensions in empty data
image_dimensions(data) == IF data = <<>> THEN <<>> ELSE data[1]

\* C20: after a run of the OpenAI or Grok CLI that ended with exit code 0 the
\* file at the output path holds exactly the image the provider delivered, the
\* dimensions sniffed from the file are those of the delivered image, and the
\* one line on standard output names the output path.
C20_OutputHoldsDelivered ==
    (pc = "done" /\ exit_code = EXIT_OK) =>
        /\ IsImageOf(OutPath, Me)
        /\ image_dimensions(Data(OutPath)) = image_dimensions(Image(Me))
        /\ stdout = <<MediaLine(OutPath)>>

-----------------------------------------------------------------------------
(* The HY3 response and the copy-back *)

\* _scp_from has been started: the run is in it or past it
CopyBackStarted ==
    \/ hpc \in {"scp_mkdir", "scp_start", "scp_data", "print"}
    \/ hpc = "done" /\ (hexit = EXIT_OK \/ HyCopyFailure)

\* C24: a run of the HY3 CLI issues the /generate request at most once, and
\* it starts the copy of the result (and prints the MEDIA line) only when the
\* response of the server was a JSON object with ok true; after every other
\* response (ok false, ok missing, unparseable or empty output, JSON that is
\* not an object) the run ends with an error and copies nothing.
C24_CopyOnlyWhenOk ==
    /\ hGen <= 1
    /\ CopyBackStarted => (hGen = 1 /\ hresp = "ok_true")
    /\ hstdout # <<>> => hresp = "ok_true"
    /\ (hpc = "done" /\ hGen = 1 /\ hresp \notin {"none", "ok_true"}) =>
          (hexit # EXIT_OK /\ ~HyCopyFailure)

-----------------------------------------------------------------------------
(* The file system after a failed run *)

\* the output path, its temp file, the sidecar paths and the parent directory
\* of the output are as they were before the run
FsAsBefore ==
    /\ parent = hadParent
    /\ \A path \in Paths : names[path] = IF existed /\ path = OutPath THEN 1 ELSE 0
    /\ existed => IsOld(OutPath)

\* C25: when a run of the OpenAI or Grok CLI has ended with exit code 1, 2
\* or 4, or with exit code 3 because the base64 payload could not be decoded
\* or was empty, the file system is as before the run: no directory was
\* created and no file was created, written or removed.
C25_FailedRunLeavesFs ==
    (/\ pc = "done"
     /\ \/ exit_code \in {EXIT_AUTH, EXIT_API, EXIT_ARGS}
        \/ report \in {"b64_failed", "empty_image"}) => FsAsBefore

\* C26: after a run that ended with exit code 0, whatever the output path and
\* the sidecar path, the image the run wrote is intact at the output path and
\* no file other than the image and the sidecar has been created, changed or
\* removed.
C26_SidecarTouchesOnlySidecar ==
    (pc = "done" /\ exit_code = EXIT_OK) =>
        /\ IsImageOf(OutPath, Me)
        /\ \A path \in Paths \ {OutPath, PStr(meta)} : ~Exists(path)

\* The temporary paths of the run: '<output>.tmp' for the image and the
\* sidecar's with_suffix(".tmp") path, leaving out a path that is itself the
\* output or the sidecar.
TempPaths ==
    ({TmpPath(OutPath)} \cup (IF meta = NoPath THEN {} ELSE {MetaTmp(meta)}))
        \ {OutPath, PStr(meta)}

\* C27: after any terminated run of the OpenAI or Grok CLI, successful or
\* failed, no temporary file of the run is left on disk.
C27_NoTempLeftBehind ==
    pc = "done" => \A path \in TempPaths : ~Exists(path)

\* _COST_TABLE: approximate cost per image by model and quality, in tenths of
\* a cent.
_COST_TABLE ==
    [m \in ALL_MODELS |->
        CASE m = "gpt-image-1.5" -> [q \in {"low", "medium", "high"} |->
                 CASE q = "low" -> 20 [] q = "medium" -> 70 [] OTHER -> 190]
          [] m = "gpt-image-1" -> [q \in {"low", "medium", "high"} |->
                 CASE q = "low" -> 11 [] q = "medium" -> 42 [] OTHER -> 167]
          [] m = "gpt-image-1-mini" -> [q \in {"low", "medium", "high"} |->
                 CASE q = "low" -> 7 [] q = "medium" -> 26 [] OTHER -> 100]
          [] m = "dall-e-3" -> [q \in {"standard", "hd"} |->
                 IF q = "standard" THEN 40 ELSE 80]
          [] OTHER -> [q \in {"standard"} |-> 20]]

\* estimate_cost's None.
NoCost == -1

\* estimate_cost(model, quality): _COST_TABLE.get(model, {}).get(quality).
estimate_cost(model, quality) ==
    IF model \in DOMAIN _COST_TABLE /\ quality \in DOMAIN _COST_TABLE[model]
    THEN _COST_TABLE[model][quality]
    ELSE NoCost

\* The run leaves --size, --quality, --format, --background and --style at
\* the parser's defaults.
AtDefaults ==
    /\ cargs # NoCliArgs
    /\ cargs.size = "1024x1024"
    /\ cargs.quality = "high"
    /\ cargs.fmt = "png"
    /\ cargs.background = DefaultBackground
    /\ cargs.style = ""

\* C30: for every model --model accepts, a run that leaves size, quality,
\* format, background and style at their defaults passes validation (after
\* main has cleared the background for a non-GPT model), and estimate_cost
\* returns a value for that model and quality; so such a run, given an
\* output path that is not a directory, never ends for invalid parameters.
C30_DefaultsValidForEveryModel ==
    (AtDefaults /\ ~output_is_dir /\ pc = "done") =>
        /\ validate_params(cargs.model, cargs.size, cargs.quality, cargs.fmt,
                           IF is_gpt_image(cargs.model) THEN cargs.background ELSE "",
                           cargs.style) = {}
        /\ estimate_cost(cargs.model, cargs.quality) # NoCost
        /\ report # "invalid_params"

-----------------------------------------------------------------------------
(* _ensure_server before a run of the HY3 CLI (SpecEnsure): main calls it when
   --ensure-server was given, then goes on with the run of SpecHy3 *)

\* --ensure-wait takes the values -1 .. MaxWait
MaxWait == 2
\* time.time() runs from second 0 to second MaxTime
MaxTime == 3

\* what "curl -s --max-time 2 <server_url>/health || true" can print: a body
\* that contains "ok": true, a body that does not, or nothing
HealthOutputs == {"ok_true", "ok_false", "empty"}

_health_Always(out) == TRUE

\* _health: "\"ok\": true" in (r.stdout or "")
_health(out) == out = "ok_true"

EnsureArgChoices ==
    [ensure_server : BOOLEAN, wait_seconds : -1 .. MaxWait, poll_seconds : {-1, 0, 1}]

InitEnsure ==
    /\ RunIdle
    /\ FsIdle
    /\ ConcIdle
    /\ MetaIdle
    /\ PairIdle
    /\ Hy3PairIdle
    /\ CliIdle
    /\ SniffIdle
    /\ JsonIdle
    /\ eargs \in EnsureArgChoices
    /\ epc = "main"
    /\ now = 0
    /\ deadline = -1
    /\ nStart = 0
    /\ hfirst = "none"
    /\ hlast = "none"
    /\ hcmd \in {"generate", "edit"}
    /\ hargs \in [out : {PathOf("out", ".png")}]
    /\ hpc = "ensure"
    /\ hexit = Running
    /\ hreport = "none"
    /\ hresp = "none"
    /\ hparent = TRUE
    /\ hout = HAbsent
    /\ hstdout = <<>>
    /\ hGen = 0

EnsFrame ==
    /\ UNCHANGED <<hcmd, hargs, hresp, hout, hparent, hstdout, hGen>>
    /\ UNCHANGED <<runVars, fsVars, concVars, metaVars, pairVars, hpairVars, cliVars>>
    /\ UNCHANGED <<sniffVars, jsonVars>>

\* main: if args.ensure_server: _ensure_server(...)
EMain ==
    /\ hpc = "ensure"
    /\ epc = "main"
    /\ IF eargs.ensure_server
       THEN /\ epc' = "initial_health"
            /\ UNCHANGED hpc
       ELSE /\ epc' = "skipped"
            /\ hpc' = "start"
    /\ UNCHANGED <<hexit, hreport, eargs, now, deadline, nStart, hfirst, hlast>>
    /\ EnsFrame

\* if _health(host, key, server_url): return
EInitialHealth ==
    /\ hpc = "ensure"
    /\ epc = "initial_health"
    /\ \E out \in HealthOutputs :
         /\ hfirst' = out
         /\ hlast' = out
         /\ IF _health(out)
            THEN /\ epc' = "returned"
                 /\ hpc' = "start"
            ELSE /\ epc' = "start_cmd"
                 /\ UNCHANGED hpc
    /\ UNCHANGED <<hexit, hreport, eargs, now, deadline, nStart>>
    /\ EnsFrame

\* _ssh(host, key, "bash -lc <start_cmd>", check=False): the remote pkill and
\* nohup of the server; its exit status is ignored
EStart ==
    /\ hpc = "ensure"
    /\ epc = "start_cmd"
    /\ nStart' = nStart + 1
    /\ epc' = "deadline"
    /\ UNCHANGED <<hpc, hexit, hreport, eargs, now, deadline, hfirst, hlast>>
    /\ EnsFrame

\* deadline = time.time() + wait_seconds
EDeadline ==
    /\ hpc = "ensure"
    /\ epc = "deadline"
    /\ deadline' = now + eargs.wait_seconds
    /\ epc' = "loop"
    /\ UNCHANGED <<hpc, hexit, hreport, eargs, now, nStart, hfirst, hlast>>
    /\ EnsFrame

\* while time.time() < deadline: ...; after the loop, raise SystemExit
ELoopTest ==
    /\ hpc = "ensure"
    /\ epc = "loop"
    /\ IF now < deadline
       THEN /\ epc' = "health"
            /\ UNCHANGED <<hpc, hexit, hreport>>
       ELSE /\ epc' = "raised"
            /\ HSystemExit("HY3 server not healthy")
    /\ UNCHANGED <<eargs, now, deadline, nStart, hfirst, hlast>>
    /\ EnsFrame

\* if _health(host, key, server_url): return
EHealth ==
    /\ hpc = "ensure"
    /\ epc = "health"
    /\ \E out \in HealthOutputs :
         /\ hlast' = out
         /\ IF _health(out)
            THEN /\ epc' = "returned"
                 /\ hpc' = "start"
            ELSE /\ epc' = "sleep"
                 /\ UNCHANGED hpc
    /\ UNCHANGED <<hexit, hreport, eargs, now, deadline, nStart, hfirst>>
    /\ EnsFrame

\* time.sleep(poll_seconds): a negative argument raises ValueError, which
\* nothing catches
ESleep ==
    /\ hpc = "ensure"
    /\ epc = "sleep"
    /\ IF eargs.poll_seconds < 0
       THEN /\ epc' = "raised"
            /\ HExit(EXIT_UNCAUGHT, "ValueError_sleep")
            /\ UNCHANGED now
       ELSE /\ now + eargs.poll_seconds <= MaxTime
            /\ now' = now + eargs.poll_seconds
            /\ epc' = "loop"
            /\ UNCHANGED <<hpc, hexit, hreport>>
    /\ UNCHANGED <<eargs, deadline, nStart, hfirst, hlast>>
    /\ EnsFrame

\* time passes while _ensure_server waits for ssh
ETick ==
    /\ hpc = "ensure"
    /\ epc \in {"initial_health", "start_cmd", "health"}
    /\ now < MaxTime
    /\ now' = now + 1
    /\ UNCHANGED <<hpc, hexit, hreport, eargs, epc, deadline, nStart, hfirst, hlast>>
    /\ EnsFrame

NextEnsure ==
    \/ EMain
    \/ EInitialHealth
    \/ EStart
    \/ EDeadline
    \/ ELoopTest
    \/ EHealth
    \/ ESleep
    \/ ETick
    \/ NextHy3

SpecEnsure == InitEnsure /\ [][NextEnsure]_vars

\* _ensure_server gave up: the loop ended without a health check reporting ok
BootstrapFailed == epc = "raised"

\* C28: _ensure_server returns only immediately after a health check that
\* reported ok; the remote kill-and-start command is issued at most once in a
\* run and only after the initial health check failed; when the deadline
\* passes without a health check succeeding the process terminates, so
\* /generate is never requested after a failed bootstrap.
C28_EnsureServer ==
    /\ [](/\ epc = "returned" => hlast = "ok_true"
          /\ nStart <= 1
          /\ nStart = 1 => hfirst \in HealthOutputs \ {"ok_true"}
          /\ BootstrapFailed => (hpc = "done" /\ hexit = EXIT_UNCAUGHT /\ hGen = 0)
          /\ hGen > 0 => epc \in {"skipped", "returned"})
    /\ [][(epc = "loop" /\ now >= deadline) =>
             (epc' = "raised" /\ hpc' = "done" /\ hGen' = 0)]_vars

C28_Witness ==
    /\ epc = "returned"
    /\ nStart = 1
    /\ hGen = 1

-----------------------------------------------------------------------------
(* The image-header sniffers, byte by byte (SpecSniff).  A byte string is a
   sequence of numbers 0 .. 255; Python's index i is position i + 1. *)

\* what a sniffer gives: None, a pair (w, h), or an exception it raised
None == [k |-> "None"]
Pair(w, h) == [k |-> "pair", w |-> w, h |-> h]
Raise(exc) == [k |-> "raise", exc |-> exc]

\* Python's truth value of a sniffer's result: None is false, a tuple of two
\* numbers is true whatever the numbers are
Truthy_NonZero(r) == r.k = "pair" /\ (r.w # 0 \/ r.h # 0)

Truthy(r) == r.k = "pair"

\* data[a:b]: the bytes at indices a .. b - 1 that exist
Slice(data, a, b) ==
    SubSeq(data, a + 1, IF b < Len(data) THEN b ELSE Len(data))

\* int.from_bytes(s, "big")
RECURSIVE FromBig(_)
FromBig(s) ==
    IF s = <<>> THEN 0 ELSE FromBig(SubSeq(s, 1, Len(s) - 1)) * 256 + s[Len(s)]

\* int.from_bytes(s, "little")
RECURSIVE FromLittle(_)
FromLittle(s) ==
    IF s = <<>> THEN 0 ELSE s[1] + 256 * FromLittle(Tail(s))

\* the bytes of an ASCII tag
B_PNG == <<137, 80, 78, 71, 13, 10, 26, 10>>
B_RIFF == <<82, 73, 70, 70>>
B_WEBP == <<87, 69, 66, 80>>
B_VP8 == <<86, 80, 56, 32>>
B_VP8L == <<86, 80, 56, 76>>
B_VP8X == <<86, 80, 56, 88>>

\* _png_dimensions: struct.unpack(">II", data[16:24]) raises struct.error
\* unless the slice has 8 bytes
_png_dimensions(data) ==
    IF Len(data) < 24 \/ Slice(data, 0, 8) # B_PNG
    THEN None
    ELSE IF Len(Slice(data, 16, 24)) # 8
         THEN Raise("struct.error")
         ELSE Pair(FromBig(Slice(data, 16, 20)), FromBig(Slice(data, 20, 24)))

JpegLoopGuard_Len(i, n) == i < n

\* while i < len(data) - 9
JpegLoopGuard(i, n) == i < n - 9

\* one iteration of the loop of _jpeg_dimensions at index i: the loop ends
\* (k = "end"), returns a pair, raises, or goes on at a later index
JpegStep(data, i) ==
    IF ~JpegLoopGuard(i, Len(data)) THEN [k |-> "end"]
    ELSE IF data[i + 1] # 255 THEN [k |-> "end"]
    ELSE IF i + 1 >= Len(data) THEN Raise("IndexError")
    ELSE IF data[i + 2] \in {192, 193, 194}
         THEN IF Len(Slice(data, i + 5, i + 9)) # 4
              THEN Raise("struct.error")
              ELSE Pair(FromBig(Slice(data, i + 7, i + 9)),
                        FromBig(Slice(data, i + 5, i + 7)))
         ELSE IF Len(Slice(data, i + 2, i + 4)) # 2
              THEN Raise("struct.error")
              ELSE [k |-> "cont", i |-> i + 2 + FromBig(Slice(data, i + 2, i + 4))]

RECURSIVE JpegLoop(_, _)
JpegLoop(data, i) ==
    LET s == JpegStep(data, i) IN
    CASE s.k = "cont" -> JpegLoop(data, s.i)
      [] s.k = "end" -> None
      [] OTHER -> s

\* the test before the loop of _jpeg_dimensions
JpegHead(data) == Len(data) >= 4 /\ Slice(data, 0, 2) = <<255, 216>>

_jpeg_dimensions(data) ==
    IF ~JpegHead(data) THEN None ELSE JpegLoop(data, 2)

\* _webp_dimensions; x & 0x3FFF is x % 16384, x >> 14 is x \div 16384
_webp_dimensions(data) ==
    IF Len(data) < 30 \/ Slice(data, 0, 4) # B_RIFF \/ Slice(data, 8, 12) # B_WEBP
    THEN None
    ELSE IF Slice(data, 12, 16) = B_VP8 /\ Len(data) >= 30
         THEN Pair(FromLittle(Slice(data, 26, 28)) % 16384,
                   FromLittle(Slice(data, 28, 30)) % 16384)
    ELSE IF Slice(data, 12, 16) = B_VP8L /\ Len(data) >= 25
         THEN LET bits == FromLittle(Slice(data, 21, 25)) IN
              Pair((bits % 16384) + 1, ((bits \div 16384) % 16384) + 1)
    ELSE None

\* the sniffers image_dimensions chains with "or", in its order
Sniffers(script) ==
    IF script = "openai" THEN <<"png", "jpeg", "webp">> ELSE <<"jpeg", "png">>

Sniff(format, data) ==
    CASE format = "png" -> _png_dimensions(data)
      [] format = "jpeg" -> _jpeg_dimensions(data)
      [] OTHER -> _webp_dimensions(data)

\* a or b or c: the first operand that is true, else the last one; an
\* exception ends the evaluation
RECURSIVE OrChain(_, _)
OrChain(order, data) ==
    LET r == Sniff(Head(order), data) IN
    IF Len(order) = 1 \/ Truthy(r) \/ r.k = "raise" THEN r
    ELSE OrChain(Tail(order), data)

\* image_dimensions(data) of the script
ImageDimensions(script, data) == OrChain(Sniffers(script), data)

(* The byte strings the sniffers are run on *)

\* at most MaxPre segments stand between SOI and the SOF segment of a JPEG
MaxPre == 1
\* at most MaxPad zero bytes follow the image's header
MaxPad == 1

\* the widths and heights tried: 258 is 0x0102, which tells the byte orders apart
Dims == {0, 1, 258}

\* x as n bytes, most significant first
RECURSIVE ToBig(_, _)
ToBig(x, n) == IF n = 0 THEN <<>> ELSE Append(ToBig(x \div 256, n - 1), x % 256)

\* x as n bytes, least significant first
RECURSIVE ToLittle(_, _)
ToLittle(x, n) == IF n = 0 THEN <<>> ELSE <<x % 256>> \o ToLittle(x \div 256, n - 1)

\* a PNG: signature, then the IHDR chunk with the width at offset 16 and the
\* height at offset 20
PngFile(w, h) ==
    B_PNG \o ToBig(13, 4) \o <<73, 72, 68, 82>> \o ToBig(w, 4) \o ToBig(h, 4)
          \o <<8, 6, 0, 0, 0>>

\* segments that may precede SOF: APP0 and DHT with their true lengths, a
\* segment of length 0 and one whose length runs past any end
GoodSegs == {<<255, 224, 0, 4, 74, 70>>, <<255, 196, 0, 3, 0>>}
BadSegs == {<<255, 224, 0, 0>>, <<255, 224, 255, 255>>}

RECURSIVE SegLists(_, _)
SegLists(segs, n) ==
    IF n = 0 THEN {<<>>}
    ELSE SegLists(segs, n - 1)
         \cup {pre \o seg : pre \in SegLists(segs, n - 1), seg \in segs}

\* a JPEG: SOI, the segments pre, a SOF segment of one component (length 11:
\* precision, height, width, component), then the SOS marker
JpegFile(pre, marker, w, h) ==
    <<255, 216>> \o pre \o <<255, marker>> \o ToBig(11, 2) \o <<8>> \o ToBig(h, 2)
                 \o ToBig(w, 2) \o <<1, 1, 17, 0>> \o <<255, 218>>

\* a lossy WebP: RIFF header, 'VP8 ' chunk, frame tag, start code, then width
\* and height in 14 bits each under 2 bits of scale
Vp8File(w, h, scale) ==
    B_RIFF \o ToLittle(22, 4) \o B_WEBP \o B_VP8 \o ToLittle(10, 4) \o <<0, 0, 0>>
           \o <<157, 1, 42>> \o ToLittle(w + scale * 16384, 2)
           \o ToLittle(h + scale * 16384, 2)

\* a lossless WebP: RIFF header, 'VP8L' chunk, signature 0x2F, then width - 1
\* and height - 1 packed in 14 bits each, then one byte of image data
Vp8lFile(w, h) ==
    B_RIFF \o ToLittle(18, 4) \o B_WEBP \o B_VP8L \o ToLittle(6, 4) \o <<47>>
           \o ToLittle((w - 1) + (h - 1) * 16384, 4) \o <<0>>

\* an extended WebP: RIFF header, 'VP8X' chunk with flags, then canvas
\* width - 1 and height - 1 in 24 bits each
Vp8xFile(w, h) ==
    B_RIFF \o ToLittle(22, 4) \o B_WEBP \o B_VP8X \o ToLittle(10, 4) \o <<16, 0, 0, 0>>
           \o ToLittle(w - 1, 3) \o ToLittle(h - 1, 3)

Input(format, w, h, valid, data) ==
    [d |-> [format |-> format, w |-> w, h |-> h, valid |-> valid], data |-> data]

Zeros(n) == [j \in 1 .. n |-> 0]

\* the images with a valid header, each followed by 0 .. MaxPad zero bytes
ValidInputs ==
    UNION {
        {Input("png", w, h, TRUE, PngFile(w, h) \o Zeros(n)),
         Input("webp", w, h, TRUE, Vp8File(w, h, 0) \o Zeros(n)),
         Input("webp", w, h, TRUE, Vp8File(w, h, 1) \o Zeros(n))}
        \cup {Input("jpeg", w, h, TRUE, JpegFile(pre, m, w, h) \o Zeros(n)) :
                 pre \in SegLists(GoodSegs, MaxPre), m \in {192, 193, 194}}
        \cup (IF w > 0 /\ h > 0
              THEN {Input("webp", w, h, TRUE, Vp8lFile(w, h) \o Zeros(n)),
                    Input("webp", w, h, TRUE, Vp8xFile(w, h) \o Zeros(n))}
              ELSE {})
        : w \in Dims, h \in Dims, n \in 0 .. MaxPad}

\* JPEGs whose segments before SOF have a zero or an oversized length
BadJpegs ==
    {Input("jpeg", w, h, FALSE, JpegFile(pre, 192, w, h)) :
        pre \in SegLists(GoodSegs \cup BadSegs, MaxPre) \ SegLists(GoodSegs, MaxPre),
        w \in {258}, h \in {1}}

\* every proper prefix of those, the empty string among them
Truncated ==
    UNION {{Input(x.d.format, 0, 0, FALSE, SubSeq(x.data, 1, n)) :
               n \in 0 .. Len(x.data) - 1} :
           x \in {y \in ValidInputs \cup BadJpegs : y.d.w = 258 /\ y.d.h = 1}}

SniffInputs == ValidInputs \cup BadJpegs \cup Truncated

InitSniff ==
    /\ RunIdle
    /\ FsIdle
    /\ ConcIdle
    /\ Hy3Idle
    /\ MetaIdle
    /\ PairIdle
    /\ Hy3PairIdle
    /\ CliIdle
    /\ EnsIdle
    /\ JsonIdle
    /\ sscript \in {"openai", "grok"}
    /\ \E x \in SniffInputs :
         /\ sin = x.d
         /\ sdata = x.data
    /\ sorder = Sniffers(sscript)
    /\ spc = "next"
    /\ ji = 0
    /\ sdims = Unset

SniffFrame ==
    /\ UNCHANGED <<sscript, sin, sdata>>
    /\ UNCHANGED <<runVars, fsVars, concVars, hy3Vars, metaVars, pairVars, hpairVars,
                   cliVars, ensVars, jsonVars>>

\* the result r of the sniffer at the head of sorder: "or" returns it when it
\* is true or when no sniffer is left, and an exception leaves
\* image_dimensions; otherwise the next sniffer is tried
OrStep(r) ==
    IF Truthy(r) \/ r.k = "raise" \/ Len(sorder) = 1
    THEN /\ sdims' = r
         /\ spc' = "done"
         /\ UNCHANGED sorder
    ELSE /\ sorder' = Tail(sorder)
         /\ spc' = "next"
         /\ UNCHANGED sdims

\* the next sniffer is called: _png_dimensions and _webp_dimensions run to
\* their return, _jpeg_dimensions up to its loop
SSniff ==
    /\ spc = "next"
    /\ IF Head(sorder) = "jpeg" /\ JpegHead(sdata)
       THEN /\ spc' = "jpeg"
            /\ ji' = 2
            /\ UNCHANGED <<sorder, sdims>>
       ELSE /\ OrStep(Sniff(Head(sorder), sdata))
            /\ UNCHANGED ji
    /\ SniffFrame

\* one iteration of the loop of _jpeg_dimensions
SJpegStep ==
    /\ spc = "jpeg"
    /\ LET s == JpegStep(sdata, ji) IN
       CASE s.k = "cont" -> /\ ji' = s.i
                            /\ UNCHANGED <<spc, sorder, sdims>>
         [] s.k = "end" -> /\ OrStep(None)
                           /\ UNCHANGED ji
         [] OTHER -> /\ OrStep(s)
                     /\ UNCHANGED ji
    /\ SniffFrame

NextSniff ==
    \/ SSniff
    \/ SJpegStep

SpecSniff == InitSniff /\ [][NextSniff]_vars

\* the true size of the image the byte string begins with
TrueDims == Pair(sin.w, sin.h)

\* the loop terminates because every step is taken
SpecSniffLive == SpecSniff /\ WF_vars(NextSniff)

\* C22: for every byte string that begins with a valid PNG, JPEG or WebP
\* header, image_dimensions of each script returns the true (width, height)
\* of the image.
C22_TrueDimensions ==
    (spc = "done" /\ sin.valid) => sdims = TrueDims

\* C23: for every byte string (empty, truncated, not an image, a JPEG with a
\* zero or an oversized segment length) image_dimensions terminates and
\* returns a pair or None: it raises nothing, reads nothing past the end of
\* the data, and its loop goes forward at every iteration.
C23_SnifferTotal ==
    /\ [](sdims.k \in {"unset", "None", "pair"})
    /\ [][(spc = "jpeg" /\ spc' = "jpeg") =>
             (ji' >= ji + 2 /\ JpegLoopGuard(ji, Len(sdata)))]_vars
    /\ <>(spc = "done")

C23_Witness ==
    /\ spc = "done"
    /\ ~sin.valid
    /\ JpegHead(sdata)
    /\ ji > 2
    /\ sdims = None

Formats == {"png", "jpeg", "webp"}

\* the orders in which the three sniffers can be chained
Orders == {o \in [1 .. 3 -> Formats] : \A a, b \in 1 .. 3 : o[a] = o[b] => a = b}

\* C29: for every byte string at most one of _png_dimensions,
\* _jpeg_dimensions and _webp_dimensions returns a pair, so image_dimensions
\* gives the same answer in whatever order the sniffers are chained, and a
\* pair a sniffer returned, (0, 0) included, is what image_dimensions returns.
C29_OneSnifferAnswers ==
    LET hits == {f \in Formats : Sniff(f, sdata) # None} IN
    /\ Cardinality(hits) <= 1
    /\ \A o1, o2 \in Orders : OrChain(o1, sdata) = OrChain(o2, sdata)
    /\ OrChain(<<"jpeg", "png">>, sdata) = OrChain(<<"png", "jpeg">>, sdata)
    /\ spc = "done" =>
          \A k \in 1 .. Len(Sniffers(sscript)) :
              Sniffers(sscript)[k] \in hits => sdims = Sniff(Sniffers(sscript)[k], sdata)

C29_Witness ==
    /\ spc = "done"
    /\ sin.format = "png"
    /\ sdims = Pair(0, 0)

-----------------------------------------------------------------------------
(* The metadata sidecar written by write_metadata and read back with
   json.loads (SpecMeta).  A text is a sequence of characters; "LF" stands
   for the newline character. *)

\* a prompt is at most MaxPrompt characters long
MaxPrompt == 2

\* Python values of the fields: a str, an int, or None
Str(chars) == [t |-> "str", v |-> chars]
Int_(n) == [t |-> "int", v |-> n]
Null == [t |-> "None"]

JChars == {"a", "n", "\"", "\\", "LF"}

RECURSIVE StringsUpTo(_)
StringsUpTo(n) ==
    IF n = 0 THEN {<<>>}
    ELSE StringsUpTo(n - 1)
         \cup {Append(s, c) : s \in {x \in StringsUpTo(n - 1) : Len(x) = n - 1}, c \in JChars}

EscapeChar_Raw(c) == IF c = "LF" THEN <<"\\", "n">> ELSE <<c>>

\* json.dumps of one character of a str: quote, backslash and newline are
\* written as two-character escapes
EscapeChar(c) ==
    CASE c = "\"" -> <<"\\", "\"">>
      [] c = "\\" -> <<"\\", "\\">>
      [] c = "LF" -> <<"\\", "n">>
      [] OTHER -> <<c>>

RECURSIVE EscapeAll(_)
EscapeAll(s) == IF s = <<>> THEN <<>> ELSE EscapeChar(Head(s)) \o EscapeAll(Tail(s))

DigitChars == <<"0", "1", "2", "3", "4", "5", "6", "7", "8", "9">>

\* json.dumps of a non-negative int: its decimal digits
RECURSIVE Digits(_)
Digits(n) ==
    IF n < 10 THEN <<DigitChars[n + 1]>>
    ELSE Append(Digits(n \div 10), DigitChars[(n % 10) + 1])

\* json.dumps of one value
json_dumps(val) ==
    CASE val.t = "None" -> <<"n", "u", "l", "l">>
      [] val.t = "int" -> Digits(val.v)
      [] OTHER -> <<"\"">> \o EscapeAll(val.v) \o <<"\"">>

\* json.loads inside a string literal: up to the closing quote, a backslash
\* taking the next character with it
RECURSIVE ScanString(_)
ScanString(text) ==
    IF text = <<>> \/ Head(text) = "\"" THEN <<>>
    ELSE IF Head(text) = "\\" /\ Len(text) >= 2
         THEN <<IF text[2] = "n" THEN "LF" ELSE text[2]>> \o ScanString(SubSeq(text, 3, Len(text)))
         ELSE <<Head(text)>> \o ScanString(Tail(text))

RECURSIVE ParseInt(_)
ParseInt(text) ==
    IF text = <<>> THEN 0
    ELSE ParseInt(SubSeq(text, 1, Len(text) - 1)) * 10
         + (CHOOSE d \in 0 .. 9 : DigitChars[d + 1] = text[Len(text)])

\* json.loads of the text of one value
json_loads(text) ==
    IF text = <<"n", "u", "l", "l">> THEN Null
    ELSE IF Head(text) = "\"" THEN Str(ScanString(Tail(text)))
    ELSE Int_(ParseInt(text))

\* the fields of meta that write_metadata takes from model, prompt, width and
\* height; main passes dims[0], dims[1] if dims else None
Meta(model, prompt, dims) ==
    [model |-> Str(model),
     prompt |-> Str(prompt),
     width |-> IF Truthy(dims) THEN Int_(dims.w) ELSE Null,
     height |-> IF Truthy(dims) THEN Int_(dims.h) ELSE Null]

MetaFields == {"model", "prompt", "width", "height"}

\* the image bytes of the runs: every image with a valid header and no
\* padding, and the prefixes of length 0, 10 and 26
MetaInputs ==
    {x \in SniffInputs : \/ x.d.valid /\ Len(x.data) <= 35 /\ x.d.format # "jpeg"
                         \/ x.d.valid /\ Len(x.data) = 17
                         \/ ~x.d.valid /\ Len(x.data) \in {0, 10, 26}}

InitMeta ==
    /\ RunIdle
    /\ FsIdle
    /\ ConcIdle
    /\ Hy3Idle
    /\ MetaIdle
    /\ PairIdle
    /\ Hy3PairIdle
    /\ CliIdle
    /\ EnsIdle
    /\ sscript \in {"openai", "grok"}
    /\ \E x \in MetaInputs :
         /\ sin = x.d
         /\ sdata = x.data
    /\ sorder = <<>>
    /\ spc = "idle"
    /\ ji = 0
    /\ sdims = Unset
    /\ jargs \in [model : {<<"m">>, <<"m", "a">>}, prompt : StringsUpTo(MaxPrompt)]
    /\ jpc = "sniff"
    /\ jtext = NoDoc
    /\ jread = NoDoc

JFrame ==
    /\ UNCHANGED <<sscript, sin, sdata, sorder, spc, ji, jargs>>
    /\ UNCHANGED <<runVars, fsVars, concVars, hy3Vars, metaVars, pairVars, hpairVars,
                   cliVars, ensVars>>

\* main: dims = image_dimensions(img_data), on the bytes written (OpenAI) or
\* read back from the temporary file (Grok)
JSniff ==
    /\ jpc = "sniff"
    /\ sdims' = ImageDimensions(sscript, sdata)
    /\ jpc' = "write"
    /\ UNCHANGED <<jtext, jread>>
    /\ JFrame

\* write_metadata: tmp.write_text(json.dumps(meta, indent=2) + "\n") and the
\* rename to meta_path
JWriteMetadata ==
    /\ jpc = "write"
    /\ jtext' = [f \in MetaFields |-> json_dumps(Meta(jargs.model, jargs.prompt, sdims)[f])]
    /\ jpc' = "written"
    /\ UNCHANGED <<sdims, jread>>
    /\ JFrame

\* a reader: json.loads(meta_path.read_text())
JReadBack ==
    /\ jpc = "written"
    /\ jread' = [f \in MetaFields |-> json_loads(jtext[f])]
    /\ jpc' = "read"
    /\ UNCHANGED <<sdims, jtext>>
    /\ JFrame

NextMeta ==
    \/ JSniff
    \/ JWriteMetadata
    \/ JReadBack

SpecMeta == InitMeta /\ [][NextMeta]_vars

\* C21: reading a metadata sidecar back yields the model and the prompt that
\* were passed in, and a width and a height equal to what the sniffer returned
\* for the persisted image bytes, or null for both when it returned None.
C21_SidecarRoundTrip ==
    jpc = "read" =>
        LET dims == ImageDimensions(sscript, sdata) IN
        /\ jread.model = Str(jargs.model)
        /\ jread.prompt = Str(jargs.prompt)
        /\ dims # None => (jread.width = Int_(dims.w) /\ jread.height = Int_(dims.h))
        /\ dims = None => (jread.width = Null /\ jread.height = Null)

C21_Witness ==
    /\ jpc = "read"
    /\ jargs.prompt = <<"\\", "n">>
    /\ jread.width = Int_(258)
    /\ jread.height = Int_(1)

====
